---- MODULE Spec2Model ----
(***************************************************************************)
(* A model of the Go rules engine (GoBoard.py), the drivers that run games *)
(* on it (goGameAI.py) and the search strategies that explore it           *)
(* (Minimax.py, MinimaxAlphaBeta.py, Agents.py, ...).                      *)
(*                                                                         *)
(* Python objects are modelled with an explicit heap, so that "this call   *)
(* does not change that board" is a property of what an operation writes   *)
(* and not of how the model is typed:                                      *)
(*   heap.objs  : GoBoard instances, by object id;                         *)
(*   heap.store : the cell grids (the list-of-lists `board`), by reference.*)
(* A GoBoard instance holds a reference to its grid; `copy()` allocates a  *)
(* new instance and a new grid.  Every method is an operator from a heap   *)
(* to a heap and a return value.                                           *)
(***************************************************************************)
EXTENDS Integers, Sequences, FiniteSets, TLC

\* ------------------------------------------------------------------ bounds
N == 3              \* board size of the boards that are explored
MaxStones == 5      \* stones a run places on one board (accepted moves)
NCopy == 2          \* board size of the boards that are copied
MaxCopyStones == 6  \* stones a run places on a board and on its copy together
NumGames == 1       \* num_games of the driver
MaxFree == 3        \* moves of a game that are drawn freely after its opening

\* ------------------------------------------------------------- vocabulary
None == "None"
BLACK == "BLACK"
WHITE == "WHITE"
Colors == {BLACK, WHITE}
NoGroup == {}       \* last_captured[c] = None: a captured group is never empty

Range(s) == {s[i] : i \in DOMAIN s}
Max(S) == CHOOSE m \in S : \A k \in S : k <= m
\* The(S) is the element of a singleton: {e(r) : r \in {call}} names the
\* returned value of a call once, for the statements that follow it
The(S) == CHOOSE v \in S : TRUE

\* range(size) x range(size)
Coord(size) == (0..(size - 1)) \X (0..(size - 1))

\* A grid is the list of its rows, as in Python; tuples are 1-based, so the
\* cell board[x][y] of the code is board[x + 1][y + 1] here.
\* [[None for _ in range(size)] for _ in range(size)]
EmptyGrid(size) == [x \in 1..size |-> [y \in 1..size |-> None]]
At(board, p) == board[p[1] + 1][p[2] + 1]

\* the row-major scan "for x in range(size) for y in range(size)"
RowMajor(size) == [i \in 1..(size * size) |-> <<(i - 1) \div size, (i - 1) % size>>]

\* ------------------------------------------------------------------ heap
MainId == 1         \* the board the caller (driver) owns
CopyId == 2         \* a board the caller obtained from copy()
SetId == 1          \* the set the caller passes as previous_boards

NewId(M) == Cardinality(DOMAIN M.objs) + CopyId + 1
NewRef(M) == Cardinality(DOMAIN M.store) + CopyId + 1

Grid(M, id) == M.store[M.objs[id].board]
PreviousBoards(M, id) == M.sets[M.objs[id].previous_boards]
EmptyHeap == [objs |-> << >>, store |-> << >>, sets |-> (SetId :> {})]

\* GoBoard.__init__: a new instance with an empty grid and zeroed counters
GoBoardInit(M, id, ref, size, previous_boards) ==
  [objs |-> (id :> [size |-> size,
                    board |-> ref,
                    captured |-> [c \in Colors |-> 0],
                    previous_boards |-> previous_boards,
                    last_captured |-> [c \in Colors |-> NoGroup]]) @@ M.objs,
   store |-> (ref :> EmptyGrid(size)) @@ M.store,
   sets |-> M.sets]

\* ---------------------------------------------------------- board helpers
is_on_board(size, x, y) == 0 <= x /\ x < size /\ 0 <= y /\ y < size

get_neighbors(size, x, y) ==
  LET neighbors == << <<x - 1, y>>, <<x + 1, y>>, <<x, y - 1>>, <<x, y + 1>> >>
      OnBoard(n) == is_on_board(size, n[1], n[2])
  IN SelectSeq(neighbors, OnBoard)

RECURSIVE get_group_loop(_, _, _, _, _)
get_group_loop(size, board, color, stack, group) ==
  IF stack = << >> THEN group
  ELSE LET c == stack[Len(stack)]
           rest == SubSeq(stack, 1, Len(stack) - 1)
       IN IF c \in group THEN get_group_loop(size, board, color, rest, group)
          ELSE LET group2 == group \cup {c}
                   Push(n) == At(board, n) = color /\ n \notin group2
               IN get_group_loop(size, board, color,
                                 rest \o SelectSeq(get_neighbors(size, c[1], c[2]), Push),
                                 group2)

get_group(size, x, y, board) ==
  get_group_loop(size, board, At(board, <<x, y>>), << <<x, y>> >>, {})

has_liberties(size, group, board) ==
  \E p \in group : \E n \in Range(get_neighbors(size, p[1], p[2])) : At(board, n) = None

\* remove_group writes the receiver's grid in place and its counter
remove_group(M, id, group, color) ==
  LET o == M.objs[id]
  IN [sets |-> M.sets,
      objs |-> [M.objs EXCEPT ![id].captured[color] = @ + Cardinality(group)],
      store |-> [M.store EXCEPT ![o.board] =
                    [x \in DOMAIN @ |-> [y \in DOMAIN @[x] |->
                        IF <<x - 1, y - 1>> \in group THEN None ELSE @[x][y]]]]]

opponent_color(color) == IF color = BLACK THEN WHITE ELSE BLACK

\* --------------------------------------------------------------- play_move
\* A capture loop that stops at the first captured group.
RECURSIVE play_move_loop_first_only(_, _, _, _, _, _)
play_move_loop_first_only(M, id, nbrs, i, color, captured_any) ==
  IF i > Len(nbrs) \/ captured_any THEN [M |-> M, captured_any |-> captured_any]
  ELSE LET size == M.objs[id].size
           neighbor_color == At(Grid(M, id), nbrs[i])
       IN IF neighbor_color # None /\ neighbor_color # color
          THEN LET neighbor_group == get_group(size, nbrs[i][1], nbrs[i][2], Grid(M, id))
               IN IF ~has_liberties(size, neighbor_group, Grid(M, id))
                  THEN play_move_loop_first_only(
                         remove_group(M, id, neighbor_group, neighbor_color),
                         id, nbrs, i + 1, color, TRUE)
                  ELSE play_move_loop_first_only(M, id, nbrs, i + 1, color, captured_any)
          ELSE play_move_loop_first_only(M, id, nbrs, i + 1, color, captured_any)

RECURSIVE play_move_loop(_, _, _, _, _, _)
play_move_loop(M, id, nbrs, i, color, captured_any) ==
  IF i > Len(nbrs) THEN [M |-> M, captured_any |-> captured_any]
  ELSE LET size == M.objs[id].size
           neighbor_color == At(Grid(M, id), nbrs[i])
       IN IF neighbor_color # None /\ neighbor_color # color
          THEN LET neighbor_group == get_group(size, nbrs[i][1], nbrs[i][2], Grid(M, id))
               IN IF ~has_liberties(size, neighbor_group, Grid(M, id))
                  THEN play_move_loop(remove_group(M, id, neighbor_group, neighbor_color),
                                      id, nbrs, i + 1, color, TRUE)
                  ELSE play_move_loop(M, id, nbrs, i + 1, color, captured_any)
          ELSE play_move_loop(M, id, nbrs, i + 1, color, captured_any)

\* play_move without the test of the cell being empty.
play_move_over_stone(M, id, x, y, color) ==
  LET o == M.objs[id]
  IN IF ~is_on_board(o.size, x, y)
     THEN [M |-> M, ret |-> FALSE, path |-> "invalid"]
     ELSE LET board_copy == NewRef(M)
              captured_before == o.captured
              M1 == [M EXCEPT !.store = (board_copy :> M.store[o.board]) @@ M.store]
              M2 == [M1 EXCEPT !.store[o.board][x + 1][y + 1] = color]
              r == play_move_loop(M2, id, get_neighbors(o.size, x, y), 1, color, FALSE)
          IN IF ~r.captured_any
                /\ ~has_liberties(o.size, get_group(o.size, x, y, Grid(r.M, id)), Grid(r.M, id))
             THEN [M |-> [r.M EXCEPT !.objs[id].board = board_copy,
                                     !.objs[id].captured = captured_before],
                   ret |-> FALSE, path |-> "rollback"]
             ELSE [M |-> r.M, ret |-> TRUE,
                   path |-> IF r.captured_any THEN "capture" ELSE "placed"]

\* play_move that tests the liberties of the placed stone before it takes
\* the opposing groups.
play_move_liberties_first(M, id, x, y, color) ==
  LET o == M.objs[id]
  IN IF ~is_on_board(o.size, x, y) \/ At(M.store[o.board], <<x, y>>) # None
     THEN [M |-> M, ret |-> FALSE, path |-> "invalid"]
     ELSE LET board_copy == NewRef(M)
              captured_before == o.captured
              M1 == [M EXCEPT !.store = (board_copy :> M.store[o.board]) @@ M.store]
              M2 == [M1 EXCEPT !.store[o.board][x + 1][y + 1] = color]
              r == play_move_loop(M2, id, get_neighbors(o.size, x, y), 1, color, FALSE)
          IN IF ~has_liberties(o.size, get_group(o.size, x, y, Grid(M2, id)), Grid(M2, id))
             THEN [M |-> [M2 EXCEPT !.objs[id].board = board_copy,
                                    !.objs[id].captured = captured_before],
                   ret |-> FALSE, path |-> "rollback"]
             ELSE [M |-> r.M, ret |-> TRUE,
                   path |-> IF r.captured_any THEN "capture" ELSE "placed"]

\* play_move without the liberty check of the placed stone.
play_move_keep_suicide(M, id, x, y, color) ==
  LET o == M.objs[id]
  IN IF ~is_on_board(o.size, x, y) \/ At(M.store[o.board], <<x, y>>) # None
     THEN [M |-> M, ret |-> FALSE, path |-> "invalid"]
     ELSE LET board_copy == NewRef(M)
              captured_before == o.captured
              M1 == [M EXCEPT !.store = (board_copy :> M.store[o.board]) @@ M.store]
              M2 == [M1 EXCEPT !.store[o.board][x + 1][y + 1] = color]
              r == play_move_loop(M2, id, get_neighbors(o.size, x, y), 1, color, FALSE)
          IN IF FALSE
             THEN [M |-> M, ret |-> FALSE, path |-> "rollback"]
             ELSE [M |-> r.M, ret |-> TRUE,
                   path |-> IF r.captured_any THEN "capture" ELSE "placed"]

\* play_move whose rollback restores the counters and not the grid.
play_move_no_restore(M, id, x, y, color) ==
  LET o == M.objs[id]
  IN IF ~is_on_board(o.size, x, y) \/ At(M.store[o.board], <<x, y>>) # None
     THEN [M |-> M, ret |-> FALSE, path |-> "invalid"]
     ELSE LET board_copy == NewRef(M)
              captured_before == o.captured
              M1 == [M EXCEPT !.store = (board_copy :> M.store[o.board]) @@ M.store]
              M2 == [M1 EXCEPT !.store[o.board][x + 1][y + 1] = color]
              r == play_move_loop(M2, id, get_neighbors(o.size, x, y), 1, color, FALSE)
          IN IF ~r.captured_any
                /\ ~has_liberties(o.size, get_group(o.size, x, y, Grid(r.M, id)), Grid(r.M, id))
             THEN [M |-> [r.M EXCEPT !.objs[id].captured = captured_before],
                   ret |-> FALSE, path |-> "rollback"]
             ELSE [M |-> r.M, ret |-> TRUE,
                   path |-> IF r.captured_any THEN "capture" ELSE "placed"]

play_move(M, id, x, y, color) ==
  LET o == M.objs[id]
  IN IF ~is_on_board(o.size, x, y) \/ At(M.store[o.board], <<x, y>>) # None
     THEN [M |-> M, ret |-> FALSE, path |-> "invalid"]
     ELSE LET board_copy == NewRef(M)
              captured_before == o.captured
              M1 == [M EXCEPT !.store = (board_copy :> M.store[o.board]) @@ M.store]
              M2 == [M1 EXCEPT !.store[o.board][x + 1][y + 1] = color]
              r == play_move_loop(M2, id, get_neighbors(o.size, x, y), 1, color, FALSE)
          IN IF ~r.captured_any
                /\ ~has_liberties(o.size, get_group(o.size, x, y, Grid(r.M, id)), Grid(r.M, id))
             THEN [M |-> [r.M EXCEPT !.objs[id].board = board_copy,
                                     !.objs[id].captured = captured_before],
                   ret |-> FALSE, path |-> "rollback"]
             ELSE [M |-> r.M, ret |-> TRUE,
                   path |-> IF r.captured_any THEN "capture" ELSE "placed"]

\* -------------------------------------------------------- play_actual_move
RECURSIVE play_actual_move_loop(_, _, _, _, _, _)
play_actual_move_loop(M, id, nbrs, i, color, captured_any) ==
  IF i > Len(nbrs) THEN [M |-> M, captured_any |-> captured_any]
  ELSE LET size == M.objs[id].size
           neighbor_color == At(Grid(M, id), nbrs[i])
       IN IF neighbor_color # None /\ neighbor_color # color
          THEN LET neighbor_group == get_group(size, nbrs[i][1], nbrs[i][2], Grid(M, id))
               IN IF ~has_liberties(size, neighbor_group, Grid(M, id))
                  THEN LET M1 == remove_group(M, id, neighbor_group, neighbor_color)
                           M2 == [M1 EXCEPT !.objs[id].last_captured[color] = neighbor_group]
                       IN play_actual_move_loop(M2, id, nbrs, i + 1, color, TRUE)
                  ELSE play_actual_move_loop(M, id, nbrs, i + 1, color, captured_any)
          ELSE play_actual_move_loop(M, id, nbrs, i + 1, color, captured_any)

play_actual_move(M, id, x, y, color) ==
  LET o == M.objs[id]
  IN IF ~is_on_board(o.size, x, y) \/ At(M.store[o.board], <<x, y>>) # None
     THEN [M |-> M, ret |-> FALSE, path |-> "invalid"]
     ELSE LET board_copy == NewRef(M)
              captured_before == o.captured
              M1 == [M EXCEPT !.store = (board_copy :> M.store[o.board]) @@ M.store]
              M2 == [M1 EXCEPT !.store[o.board][x + 1][y + 1] = color]
              r == play_actual_move_loop(M2, id, get_neighbors(o.size, x, y), 1, color, FALSE)
          IN IF ~r.captured_any
                /\ ~has_liberties(o.size, get_group(o.size, x, y, Grid(r.M, id)), Grid(r.M, id))
             THEN [M |-> [r.M EXCEPT !.objs[id].board = board_copy,
                                     !.objs[id].captured = captured_before],
                   ret |-> FALSE, path |-> "rollback"]
             ELSE [M |-> r.M, ret |-> TRUE,
                   path |-> IF r.captured_any THEN "capture" ELSE "placed"]

\* -------------------------------------------------------------------- copy
\* GoBoard(self.size, self.previous_boards) and deepcopy(self.board): a new
\* instance, a new grid with the same cells; the counters and last_captured
\* are those of __init__.  The previous_boards set is passed by reference.
\* a copy whose board is the receiver's list, not a deepcopy of it
copy_shared_board(M, id) ==
  LET new_board == NewId(M)
      M1 == GoBoardInit(M, new_board, NewRef(M), M.objs[id].size, M.objs[id].previous_boards)
  IN [M |-> [M1 EXCEPT !.objs[new_board].board = M.objs[id].board], ret |-> new_board]

copy(M, id) ==
  LET new_board == NewId(M)
      ref == NewRef(M)
      M1 == GoBoardInit(M, new_board, ref, M.objs[id].size, M.objs[id].previous_boards)
  IN [M |-> [M1 EXCEPT !.store[ref] = Grid(M, id)], ret |-> new_board]

\* ----------------------------------------------------------- is_legal_move
\* tuple(map(tuple, board)): the rows as tuples, a tuple of the rows
AsTuple(board) == [x \in 1..Len(board) |-> [y \in 1..Len(board[x]) |-> board[x][y]]]

RECURSIVE is_legal_move_loop(_, _, _, _, _, _)
is_legal_move_loop(M, id, board_copy, nbrs, i, color) ==
  IF i > Len(nbrs) THEN [M |-> M, ret |-> "fallthrough"]
  ELSE LET size == M.objs[id].size
           neighbor_color == At(Grid(M, board_copy), nbrs[i])
       IN IF neighbor_color # None /\ neighbor_color # color
          THEN LET neighbor_group ==
                     get_group(size, nbrs[i][1], nbrs[i][2], Grid(M, board_copy))
               IN IF neighbor_group = M.objs[id].last_captured[color]
                  THEN [M |-> M, ret |-> "last_captured"]
                  ELSE IF ~has_liberties(size, neighbor_group, Grid(M, board_copy))
                  THEN LET M1 == remove_group(M, board_copy, neighbor_group, neighbor_color)
                       IN IF AsTuple(Grid(M1, board_copy)) \in PreviousBoards(M1, id)
                          THEN [M |-> M1, ret |-> "ko_after_capture"]
                          ELSE [M |-> M1, ret |-> "capture"]
                  ELSE is_legal_move_loop(M, id, board_copy, nbrs, i + 1, color)
          ELSE is_legal_move_loop(M, id, board_copy, nbrs, i + 1, color)

\* a legality test without the liberty test of the placed stone's group.
is_legal_move_without_liberties(M, id, x, y, color) ==
  LET size == M.objs[id].size
  IN IF At(Grid(M, id), <<x, y>>) # None
     THEN [M |-> M, ret |-> FALSE, path |-> "occupied"]
     ELSE LET c == copy(M, id)
              board_copy == c.ret
              M1 == [c.M EXCEPT !.store[c.M.objs[board_copy].board][x + 1][y + 1] = color]
          IN IF AsTuple(Grid(M1, board_copy)) \in PreviousBoards(M1, id)
             THEN [M |-> M1, ret |-> FALSE, path |-> "ko"]
             ELSE LET r == is_legal_move_loop(M1, id, board_copy,
                                              get_neighbors(size, x, y), 1, color)
                  IN IF r.ret # "fallthrough"
                     THEN [M |-> r.M, ret |-> (r.ret = "capture"), path |-> r.ret]
                     ELSE [M |-> r.M, ret |-> TRUE, path |-> "liberties"]

\* path names the return statement that was taken
is_legal_move(M, id, x, y, color) ==
  LET size == M.objs[id].size
  IN IF At(Grid(M, id), <<x, y>>) # None
     THEN [M |-> M, ret |-> FALSE, path |-> "occupied"]
     ELSE LET c == copy(M, id)
              board_copy == c.ret
              M1 == [c.M EXCEPT !.store[c.M.objs[board_copy].board][x + 1][y + 1] = color]
          IN IF AsTuple(Grid(M1, board_copy)) \in PreviousBoards(M1, id)
             THEN [M |-> M1, ret |-> FALSE, path |-> "ko"]
             ELSE LET r == is_legal_move_loop(M1, id, board_copy,
                                              get_neighbors(size, x, y), 1, color)
                  IN IF r.ret # "fallthrough"
                     THEN [M |-> r.M, ret |-> (r.ret = "capture"), path |-> r.ret]
                     ELSE LET player_group == get_group(size, x, y, Grid(r.M, board_copy))
                          IN IF ~has_liberties(size, player_group, Grid(r.M, board_copy))
                             THEN [M |-> r.M, ret |-> FALSE, path |-> "suicide"]
                             ELSE [M |-> r.M, ret |-> TRUE, path |-> "liberties"]

\* get_legal_moves: the comprehension, cell by cell in row-major order.
\* The test of the i-th cell:
get_legal_moves_cell(M, id, color, i, acc) ==
  IF At(Grid(M, id), RowMajor(M.objs[id].size)[i]) = None
  THEN The({[M |-> r.M,
             ret |-> IF r.ret THEN Append(acc, RowMajor(M.objs[id].size)[i]) ELSE acc] :
            r \in {is_legal_move(M, id, RowMajor(M.objs[id].size)[i][1],
                                 RowMajor(M.objs[id].size)[i][2], color)}})
  ELSE [M |-> M, ret |-> acc]

\* the cells i .. j, i <= j, in order; they are composed in halves, which
\* keeps the evaluation shallow
RECURSIVE get_legal_moves_loop(_, _, _, _, _, _)
get_legal_moves_loop(M, id, color, i, j, acc) ==
  IF i = j THEN get_legal_moves_cell(M, id, color, i, acc)
  ELSE The({get_legal_moves_loop(half.M, id, color, (i + j) \div 2 + 1, j, half.ret) :
            half \in {get_legal_moves_loop(M, id, color, i, (i + j) \div 2, acc)}})

\* get_legal_moves whose scan starts at the second cell.
get_legal_moves_from_second(M, id, color) ==
  get_legal_moves_loop(M, id, color, 2, M.objs[id].size * M.objs[id].size, << >>)

get_legal_moves(M, id, color) ==
  get_legal_moves_loop(M, id, color, 1, M.objs[id].size * M.objs[id].size, << >>)

is_terminal(M, id, color) ==
  LET r == get_legal_moves(M, id, color)
  IN [M |-> r.M, ret |-> (Len(r.ret) = 0)]

\* ------------------------------------------------------------- count_score
is_surrounded(M, id, group, color) ==
  \A p \in group : \A n \in Range(get_neighbors(M.objs[id].size, p[1], p[2])) :
    At(Grid(M, id), n) # None /\ At(Grid(M, id), n) = color

RECURSIVE flood_fill_loop(_, _, _, _, _)
flood_fill_loop(size, board, stack, group, visited) ==
  IF stack = << >> THEN [group |-> group, visited |-> visited]
  ELSE LET c == stack[Len(stack)]
           rest == SubSeq(stack, 1, Len(stack) - 1)
       IN IF c \in group \/ c \in visited
          THEN flood_fill_loop(size, board, rest, group, visited)
          ELSE LET group2 == group \cup {c}
                   Push(n) == At(board, n) = None /\ n \notin group2
               IN flood_fill_loop(size, board,
                                  rest \o SelectSeq(get_neighbors(size, c[1], c[2]), Push),
                                  group2, visited \cup {c})

\* the test of the i-th cell of count_area, in row-major order
count_area_cell(M, id, color, i, visited, score) ==
  IF /\ At(Grid(M, id), RowMajor(M.objs[id].size)[i]) = None
     /\ RowMajor(M.objs[id].size)[i] \notin visited
  THEN The({[visited |-> f.visited,
             score |-> IF is_surrounded(M, id, f.group, color)
                       THEN score + Cardinality(f.group) ELSE score] :
            f \in {flood_fill_loop(M.objs[id].size, Grid(M, id),
                                   <<RowMajor(M.objs[id].size)[i]>>, {}, visited)}})
  ELSE [visited |-> visited, score |-> score]

\* the cells i .. j, i <= j, in order, composed in halves
RECURSIVE count_area_loop(_, _, _, _, _, _, _)
count_area_loop(M, id, color, i, j, visited, score) ==
  IF i = j THEN count_area_cell(M, id, color, i, visited, score)
  ELSE The({count_area_loop(M, id, color, (i + j) \div 2 + 1, j, half.visited, half.score) :
            half \in {count_area_loop(M, id, color, i, (i + j) \div 2, visited, score)}})

count_area(M, id, color) ==
  count_area_loop(M, id, color, 1, M.objs[id].size * M.objs[id].size, {}, 0).score

count_score(M, id) ==
  [c \in Colors |-> count_area(M, id, c) + M.objs[id].captured[opponent_color(c)]]

\* ---------------------------------------------------------------- evaluators
evaluate_board(M, id, color) ==
  count_score(M, id)[color] - count_score(M, id)[opponent_color(color)]

stone_count(M, id, color) ==
  Cardinality({p \in Coord(M.objs[id].size) : At(Grid(M, id), p) = color})

\* flood_fill of controlled_territory: a cell that is popped joins group and
\* visited, whatever it holds; the neighbours of an empty cell are pushed
RECURSIVE territory_flood_fill_loop(_, _, _, _, _)
territory_flood_fill_loop(size, board, stack, group, visited) ==
  IF stack = << >> THEN [group |-> group, visited |-> visited]
  ELSE LET c == stack[Len(stack)]
           rest == SubSeq(stack, 1, Len(stack) - 1)
       IN IF c \in group \/ c \in visited
          THEN territory_flood_fill_loop(size, board, rest, group, visited)
          ELSE LET visited2 == visited \cup {c}
                   Push(n) == n \notin visited2
               IN territory_flood_fill_loop(
                    size, board,
                    IF At(board, c) = None
                    THEN rest \o SelectSeq(get_neighbors(size, c[1], c[2]), Push)
                    ELSE rest,
                    group \cup {c}, visited2)

\* the test of the i-th cell of controlled_territory, in row-major order
controlled_territory_cell(M, id, color, i, visited, territory_score) ==
  IF /\ At(Grid(M, id), RowMajor(M.objs[id].size)[i]) = None
     /\ RowMajor(M.objs[id].size)[i] \notin visited
  THEN The({[visited |-> f.visited,
             territory_score |-> IF is_surrounded(M, id, f.group, color)
                                 THEN territory_score + Cardinality(f.group)
                                 ELSE territory_score] :
            f \in {territory_flood_fill_loop(M.objs[id].size, Grid(M, id),
                                             <<RowMajor(M.objs[id].size)[i]>>, {}, visited)}})
  ELSE [visited |-> visited, territory_score |-> territory_score]

\* the cells i .. j, i <= j, in order, composed in halves
RECURSIVE controlled_territory_loop(_, _, _, _, _, _, _)
controlled_territory_loop(M, id, color, i, j, visited, territory_score) ==
  IF i = j THEN controlled_territory_cell(M, id, color, i, visited, territory_score)
  ELSE The({controlled_territory_loop(M, id, color, (i + j) \div 2 + 1, j,
                                      half.visited, half.territory_score) :
            half \in {controlled_territory_loop(M, id, color, i, (i + j) \div 2,
                                                visited, territory_score)}})

controlled_territory(M, id, color) ==
  controlled_territory_loop(M, id, color, 1, M.objs[id].size * M.objs[id].size,
                            {}, 0).territory_score

get_captures(M, id, color) == M.objs[id].captured[opponent_color(color)]

\* count_liberties of potential_liberties: every empty neighbour of a popped
\* stone counts once, and is pushed like a neighbour of the colour
RECURSIVE count_liberties_loop(_, _, _, _, _, _)
count_liberties_loop(size, board, color, stack, visited, liberty_count) ==
  IF stack = << >> THEN [visited |-> visited, liberty_count |-> liberty_count]
  ELSE LET c == stack[Len(stack)]
           rest == SubSeq(stack, 1, Len(stack) - 1)
       IN IF c \in visited
          THEN count_liberties_loop(size, board, color, rest, visited, liberty_count)
          ELSE IF At(board, c) = color
          THEN LET nbrs == get_neighbors(size, c[1], c[2])
                   IsEmpty(n) == At(board, n) = None
                   Push(n) == At(board, n) = None \/ At(board, n) = color
               IN count_liberties_loop(size, board, color,
                                       rest \o SelectSeq(nbrs, Push),
                                       visited \cup {c},
                                       liberty_count + Len(SelectSeq(nbrs, IsEmpty)))
          ELSE count_liberties_loop(size, board, color, rest, visited \cup {c}, liberty_count)

\* the test of the i-th cell of potential_liberties, in row-major order
potential_liberties_cell(M, id, color, i, visited, liberty_count) ==
  IF /\ At(Grid(M, id), RowMajor(M.objs[id].size)[i]) = color
     /\ RowMajor(M.objs[id].size)[i] \notin visited
  THEN count_liberties_loop(M.objs[id].size, Grid(M, id), color,
                            <<RowMajor(M.objs[id].size)[i]>>, visited, liberty_count)
  ELSE [visited |-> visited, liberty_count |-> liberty_count]

\* the cells i .. j, i <= j, in order, composed in halves
RECURSIVE potential_liberties_loop(_, _, _, _, _, _, _)
potential_liberties_loop(M, id, color, i, j, visited, liberty_count) ==
  IF i = j THEN potential_liberties_cell(M, id, color, i, visited, liberty_count)
  ELSE The({potential_liberties_loop(M, id, color, (i + j) \div 2 + 1, j,
                                     half.visited, half.liberty_count) :
            half \in {potential_liberties_loop(M, id, color, i, (i + j) \div 2,
                                               visited, liberty_count)}})

potential_liberties(M, id, color) ==
  potential_liberties_loop(M, id, color, 1, M.objs[id].size * M.objs[id].size,
                           {}, 0).liberty_count

\* corner_and_edge_control that scores a corner for each of its two tests.
corner_and_edge_control_corners_twice(M, id, color) ==
  LET size == M.objs[id].size
      Border == {0, size - 1}
      Mine == {p \in Coord(size) : At(Grid(M, id), p) = color}
  IN Cardinality({p \in Mine : p[1] \in Border /\ p[2] \in Border})
     + Cardinality({p \in Mine : p[1] \in Border \/ p[2] \in Border})

corner_and_edge_control(M, id, color) ==
  LET size == M.objs[id].size
      Border == {0, size - 1}
  IN Cardinality({p \in Coord(size) :
                    /\ At(Grid(M, id), p) = color
                    /\ \/ p[1] \in Border /\ p[2] \in Border
                       \/ p[1] \in Border \/ p[2] \in Border})

evaluate_board_using_heuristic(M, id, color) ==
  stone_count(M, id, color) * 1
  + controlled_territory(M, id, color) * 5
  + get_captures(M, id, color) * 3
  + potential_liberties(M, id, color) * 2
  + corner_and_edge_control(M, id, color) * 4

evaluate_board_using_heuristic2(M, id, color) ==
  stone_count(M, id, color) * 1
  + controlled_territory(M, id, color) * 5
  + get_captures(M, id, color) * 3
  + potential_liberties(M, id, color) * 2

\* ------------------------------------------------------------------ search
\* float('inf'): above every value an evaluator returns on the boards explored
inf == 1000000

\* str(board.board): the text of the list of lists
CellStr(c) == IF c = None THEN "None" ELSE "'" \o c \o "'"

RECURSIVE JoinStr(_, _)
JoinStr(strs, i) ==
  IF i > Len(strs) THEN ""
  ELSE (IF i > 1 THEN ", " ELSE "") \o strs[i] \o JoinStr(strs, i + 1)

ListStr(strs) == "[" \o JoinStr(strs, 1) \o "]"

board_to_key(board) ==
  ListStr([x \in 1..Len(board) |->
             ListStr([y \in 1..Len(board[x]) |-> CellStr(board[x][y])])])

\* the move played on the board itself, with no copy taken
copy_and_play_in_place(M, id, move, color) ==
  [M |-> play_move(M, id, move[1], move[2], color).M, board_copy |-> id]

\* board_copy = board.copy(); board_copy.play_move(*move, color)
copy_and_play(M, id, move, color) ==
  The({[M |-> play_move(c.M, c.ret, move[1], move[2], color).M, board_copy |-> c.ret] :
       c \in {copy(M, id)}})

\* the leaf evaluators of the two minimax classes
OPPONENT_COLOR(color) == IF color = BLACK THEN WHITE ELSE BLACK

LeafValue(M, id, color, leaf) ==
  IF leaf = "evaluate_board"
  THEN evaluate_board(M, id, color)
  ELSE evaluate_board_using_heuristic(M, id, color)
       - evaluate_board_using_heuristic(M, id, OPPONENT_COLOR(color))

max(a, b) == IF b > a THEN b ELSE a
min(a, b) == IF b < a THEN b ELSE a
Memoize(S, key, value) == [M |-> S.M, memo |-> (key :> value) @@ S.memo, ret |-> value]

\* ----------------------------------------------------------------- Minimax
RECURSIVE Minimax_minimax_search(_, _, _, _, _, _, _)
RECURSIVE Minimax_minimax_search_loop(_, _, _, _, _, _, _, _, _, _)

Minimax_minimax_search_loop(M, memo, board, color, depth, maximizing, moves, i, best_value, leaf) ==
  IF i > Len(moves) THEN [M |-> M, memo |-> memo, ret |-> best_value]
  ELSE The({The({Minimax_minimax_search_loop(
                   v.M, v.memo, board, color, depth, maximizing, moves, i + 1,
                   IF maximizing THEN max(best_value, v.ret) ELSE min(best_value, v.ret),
                   leaf) :
                 v \in {Minimax_minimax_search(b.M, memo, b.board_copy,
                                                opponent_color(color), depth - 1,
                                                ~maximizing, leaf)}}) :
            b \in {copy_and_play(M, board, moves[i], color)}})

Minimax_minimax_search(M, memo, board, color, depth, maximizing, leaf) ==
  LET key == <<board_to_key(Grid(M, board)), color, depth>>
  IN IF key \in DOMAIN memo THEN [M |-> M, memo |-> memo, ret |-> memo[key]]
     ELSE IF depth = 0
     THEN Memoize([M |-> M, memo |-> memo], key, LeafValue(M, board, color, leaf))
     ELSE The({IF moves.ret = << >>
               THEN Memoize([M |-> moves.M, memo |-> memo], key,
                            LeafValue(moves.M, board, color, leaf))
               ELSE The({Memoize(r, key, r.ret) :
                         r \in {Minimax_minimax_search_loop(
                                   moves.M, memo, board, color, depth, maximizing,
                                   moves.ret, 1, IF maximizing THEN -inf ELSE inf, leaf)}}) :
               moves \in {get_legal_moves(M, board, color)}})

RECURSIVE Minimax_minimax_loop(_, _, _, _, _, _, _, _, _, _)
Minimax_minimax_loop(M, memo, board, color, depth, moves, i, best_move, best_value, leaf) ==
  IF i > Len(moves)
  THEN [M |-> M, memo |-> memo, ret |-> [move |-> best_move, value |-> best_value]]
  ELSE The({The({Minimax_minimax_loop(
                   v.M, v.memo, board, color, depth, moves, i + 1,
                   IF v.ret > best_value THEN moves[i] ELSE best_move,
                   IF v.ret > best_value THEN v.ret ELSE best_value, leaf) :
                 v \in {Minimax_minimax_search(b.M, memo, b.board_copy,
                                                opponent_color(color), depth - 1,
                                                FALSE, leaf)}}) :
            b \in {copy_and_play(M, board, moves[i], color)}})

\* Minimax(board, color).minimax(depth), with the leaf evaluator named
Minimax_minimax(M, board, color, depth, leaf) ==
  The({Minimax_minimax_loop(moves.M, << >>, board, color, depth, moves.ret, 1,
                            None, -inf, leaf) :
       moves \in {get_legal_moves(M, board, color)}})

\* -------------------------------------------------------- MinimaxAlphaBeta
RECURSIVE MinimaxAlphaBeta_minimax_search(_, _, _, _, _, _, _, _, _)
RECURSIVE MinimaxAlphaBeta_minimax_search_loop(_, _, _, _, _, _, _, _, _, _, _, _)

MinimaxAlphaBeta_minimax_search_loop(M, memo, board, color, depth, alpha, beta, maximizing, moves, i, best_value, leaf) ==
  IF i > Len(moves) THEN [M |-> M, memo |-> memo, ret |-> best_value]
  ELSE The({The({IF maximizing
                 THEN IF beta <= max(alpha, v.ret)
                      THEN [M |-> v.M, memo |-> v.memo, ret |-> max(best_value, v.ret)]
                      ELSE MinimaxAlphaBeta_minimax_search_loop(
                             v.M, v.memo, board, color, depth, max(alpha, v.ret), beta,
                             maximizing, moves, i + 1, max(best_value, v.ret), leaf)
                 ELSE IF min(beta, v.ret) <= alpha
                      THEN [M |-> v.M, memo |-> v.memo, ret |-> min(best_value, v.ret)]
                      ELSE MinimaxAlphaBeta_minimax_search_loop(
                             v.M, v.memo, board, color, depth, alpha, min(beta, v.ret),
                             maximizing, moves, i + 1, min(best_value, v.ret), leaf) :
                 v \in {MinimaxAlphaBeta_minimax_search(
                           b.M, memo, b.board_copy, opponent_color(color), depth - 1,
                           alpha, beta, ~maximizing, leaf)}}) :
            b \in {copy_and_play(M, board, moves[i], color)}})

MinimaxAlphaBeta_minimax_search(M, memo, board, color, depth, alpha, beta, maximizing, leaf) ==
  LET key == <<board_to_key(Grid(M, board)), color, depth>>
  IN IF key \in DOMAIN memo THEN [M |-> M, memo |-> memo, ret |-> memo[key]]
     ELSE IF depth = 0
     THEN Memoize([M |-> M, memo |-> memo], key, LeafValue(M, board, color, leaf))
     ELSE The({IF moves.ret = << >>
               THEN Memoize([M |-> moves.M, memo |-> memo], key,
                            LeafValue(moves.M, board, color, leaf))
               ELSE The({Memoize(r, key, r.ret) :
                         r \in {MinimaxAlphaBeta_minimax_search_loop(
                                   moves.M, memo, board, color, depth, alpha, beta,
                                   maximizing, moves.ret, 1,
                                   IF maximizing THEN -inf ELSE inf, leaf)}}) :
               moves \in {get_legal_moves(M, board, color)}})

RECURSIVE MinimaxAlphaBeta_minimax_loop(_, _, _, _, _, _, _, _, _, _)
MinimaxAlphaBeta_minimax_loop(M, memo, board, color, depth, moves, i, best_move, alpha, leaf) ==
  IF i > Len(moves)
  THEN [M |-> M, memo |-> memo, ret |-> [move |-> best_move, value |-> alpha]]
  ELSE The({The({MinimaxAlphaBeta_minimax_loop(
                   v.M, v.memo, board, color, depth, moves, i + 1,
                   IF v.ret > alpha THEN moves[i] ELSE best_move,
                   IF v.ret > alpha THEN v.ret ELSE alpha, leaf) :
                 v \in {MinimaxAlphaBeta_minimax_search(
                           b.M, memo, b.board_copy, opponent_color(color), depth - 1,
                           alpha, inf, FALSE, leaf)}}) :
            b \in {copy_and_play(M, board, moves[i], color)}})

\* MinimaxAlphaBeta(board, color).minimax(depth), with the leaf evaluator named
MinimaxAlphaBeta_minimax(M, board, color, depth, leaf) ==
  The({MinimaxAlphaBeta_minimax_loop(moves.M, << >>, board, color, depth, moves.ret, 1,
                                     None, -inf, leaf) :
       moves \in {get_legal_moves(M, board, color)}})

\* -------------------------------------------------------------- Expectimax
\* total_value / len(moves): a quotient of integers, kept as a fraction in
\* lowest terms with a positive denominator
RECURSIVE GCD(_, _)
GCD(a, b) == IF b = 0 THEN a ELSE GCD(b, a % b)
Abs(a) == IF a < 0 THEN -a ELSE a
Frac(n, d) == LET g == GCD(Abs(n), d) IN [n |-> n \div g, d |-> d \div g]
FracOf(i) == [n |-> i, d |-> 1]
FracAdd(a, b) == Frac(a.n * b.d + b.n * a.d, a.d * b.d)
FracDiv(a, k) == Frac(a.n, a.d * k)
FracLess(a, b) == a.n * b.d < b.n * a.d
FracMax(a, b) == IF FracLess(a, b) THEN b ELSE a
FracMul(a, b) == Frac(a.n * b.n, a.d * b.d)
FracSub(a, b) == Frac(a.n * b.d - b.n * a.d, a.d * b.d)

\* key = (str(board.board), color, depth)
Expectimax_key(M, board, color, depth) == <<board_to_key(Grid(M, board)), color, depth>>

RECURSIVE Expectimax_expectimax_search(_, _, _, _, _)
RECURSIVE Expectimax_expectimax_search_loop(_, _, _, _, _, _, _, _, _)

\* the body of `for move in moves` for moves[i]; acc is best_value for BLACK
\* and total_value for WHITE
Expectimax_expectimax_search_move(M, memo, board, color, depth, moves, i, acc) ==
  The({The({[M |-> v.M, memo |-> v.memo,
             ret |-> IF color = BLACK THEN FracMax(acc, v.ret) ELSE FracAdd(acc, v.ret)] :
            v \in {Expectimax_expectimax_search(b.M, memo, b.board_copy,
                                                 opponent_color(color), depth - 1)}}) :
       b \in {copy_and_play(M, board, moves[i], color)}})

\* the iterations for moves[i] .. moves[j], i <= j, in order; they are
\* composed in halves, which keeps the evaluation shallow
Expectimax_expectimax_search_loop(M, memo, board, color, depth, moves, i, j, acc) ==
  IF i = j
  THEN Expectimax_expectimax_search_move(M, memo, board, color, depth, moves, i, acc)
  ELSE The({Expectimax_expectimax_search_loop(
              half.M, half.memo, board, color, depth, moves, (i + j) \div 2 + 1, j, half.ret) :
            half \in {Expectimax_expectimax_search_loop(
                        M, memo, board, color, depth, moves, i, (i + j) \div 2, acc)}})

\* the node once `moves` is bound: the terminal node, the maximum over the
\* moves for BLACK, and total_value / len(moves) for WHITE
Expectimax_expectimax_search_moves(M, memo, board, color, depth, moves) ==
  IF moves = << >>
  THEN Memoize([M |-> M, memo |-> memo], Expectimax_key(M, board, color, depth),
               FracOf(evaluate_board(M, board, color)))
  ELSE The({Memoize(r, Expectimax_key(M, board, color, depth),
                    IF color = BLACK THEN r.ret ELSE FracDiv(r.ret, Len(moves))) :
            r \in {Expectimax_expectimax_search_loop(
                      M, memo, board, color, depth, moves, 1, Len(moves),
                      IF color = BLACK THEN FracOf(-inf) ELSE FracOf(0))}})

Expectimax_expectimax_search(M, memo, board, color, depth) ==
  IF Expectimax_key(M, board, color, depth) \in DOMAIN memo
  THEN [M |-> M, memo |-> memo, ret |-> memo[Expectimax_key(M, board, color, depth)]]
  ELSE IF depth = 0
  THEN Memoize([M |-> M, memo |-> memo], Expectimax_key(M, board, color, depth),
               FracOf(evaluate_board_using_heuristic2(M, board, color)))
  ELSE The({Expectimax_expectimax_search_moves(moves.M, memo, board, color, depth,
                                                moves.ret) :
            moves \in {get_legal_moves(M, board, color)}})

\* the body of `for move in moves` of expectimax for moves[i]
Expectimax_expectimax_move(M, memo, board, color, depth, moves, i, best_move, best_value) ==
  The({The({[M |-> v.M, memo |-> v.memo,
             ret |-> [move |-> IF FracLess(best_value, v.ret) THEN moves[i] ELSE best_move,
                      value |-> IF FracLess(best_value, v.ret) THEN v.ret ELSE best_value]] :
            v \in {Expectimax_expectimax_search(b.M, memo, b.board_copy,
                                                 opponent_color(color), depth - 1)}}) :
       b \in {copy_and_play(M, board, moves[i], color)}})

\* the iterations for moves[i] .. moves[j], i <= j, in order, composed in halves
RECURSIVE Expectimax_expectimax_loop(_, _, _, _, _, _, _, _, _, _)
Expectimax_expectimax_loop(M, memo, board, color, depth, moves, i, j, best_move, best_value) ==
  IF i = j
  THEN Expectimax_expectimax_move(M, memo, board, color, depth, moves, i,
                                  best_move, best_value)
  ELSE The({Expectimax_expectimax_loop(
              half.M, half.memo, board, color, depth, moves, (i + j) \div 2 + 1, j,
              half.ret.move, half.ret.value) :
            half \in {Expectimax_expectimax_loop(
                        M, memo, board, color, depth, moves, i, (i + j) \div 2,
                        best_move, best_value)}})

\* Expectimax(board, color).expectimax(depth)
Expectimax_expectimax(M, board, color, depth) ==
  The({IF moves.ret = << >>
       THEN [M |-> moves.M, memo |-> << >>,
             ret |-> [move |-> None, value |-> FracOf(-inf)]]
       ELSE Expectimax_expectimax_loop(moves.M, << >>, board, color, depth, moves.ret,
                                       1, Len(moves.ret), None, FracOf(-inf)) :
       moves \in {get_legal_moves(M, board, color)}})

\* ------------------------------------------------------------------ agents
\* random.choice(seq), np.random.randint(len(seq)): the generator's state
\* rng picks the element and moves on
Choice(seq, rng) == seq[(rng % Len(seq)) + 1]
NextRng(rng) == (5 * rng + 3) % 16

\* a move returned although the list is empty
random_move_never_none(M, id, color, rng) ==
  The({[M |-> legal_moves.M,
        ret |-> IF legal_moves.ret = << >> THEN <<0, 0>> ELSE Choice(legal_moves.ret, rng),
        rng |-> NextRng(rng)] :
       legal_moves \in {get_legal_moves(M, id, color)}})

\* board.random_move(color)
random_move(M, id, color, rng) ==
  The({[M |-> legal_moves.M,
        ret |-> IF legal_moves.ret = << >> THEN None ELSE Choice(legal_moves.ret, rng),
        rng |-> IF legal_moves.ret = << >> THEN rng ELSE NextRng(rng)] :
       legal_moves \in {get_legal_moves(M, id, color)}})

\* RandomAgent(color).getAction(board)
RandomAgent_getAction(M, id, color, rng) == random_move(M, id, color, rng)

\* deepcopy(board): a new instance with copies of every field, the grid and
\* the previous_boards set included
NewSet(M) == Cardinality(DOMAIN M.sets) + SetId
deepcopy(M, id) ==
  LET new_board == NewId(M)
      ref == NewRef(M)
      set == NewSet(M)
  IN [M |-> [objs |-> (new_board :> [M.objs[id] EXCEPT !.board = ref,
                                                        !.previous_boards = set])
                      @@ M.objs,
             store |-> (ref :> Grid(M, id)) @@ M.store,
             sets |-> (set :> PreviousBoards(M, id)) @@ M.sets],
      ret |-> new_board]

\* the loop of getAction that keeps a single best action, the last one.
RECURSIVE GreedyAgent_getAction_loop_last_best(_, _, _, _, _, _, _)
GreedyAgent_getAction_loop_last_best(M, id, color, legal_moves, i, best_score, best_actions) ==
  IF i > Len(legal_moves) THEN [M |-> M, ret |-> best_actions]
  ELSE The({The({IF p.ret
                 THEN The({GreedyAgent_getAction_loop_last_best(
                             p.M, id, color, legal_moves, i + 1,
                             IF score >= best_score THEN score ELSE best_score,
                             IF score >= best_score THEN <<legal_moves[i]>>
                             ELSE best_actions) :
                           score \in {evaluate_board_using_heuristic2(p.M, c.ret, color)}})
                 ELSE GreedyAgent_getAction_loop_last_best(p.M, id, color, legal_moves, i + 1,
                                                           best_score, best_actions) :
                 p \in {play_move(c.M, c.ret, legal_moves[i][1], legal_moves[i][2], color)}}) :
            c \in {deepcopy(M, id)}})

RECURSIVE GreedyAgent_getAction_loop(_, _, _, _, _, _, _)
GreedyAgent_getAction_loop(M, id, color, legal_moves, i, best_score, best_actions) ==
  IF i > Len(legal_moves) THEN [M |-> M, ret |-> best_actions]
  ELSE The({The({IF p.ret
                 THEN The({GreedyAgent_getAction_loop(
                             p.M, id, color, legal_moves, i + 1,
                             IF score > best_score THEN score ELSE best_score,
                             IF score > best_score THEN <<legal_moves[i]>>
                             ELSE IF score = best_score
                             THEN Append(best_actions, legal_moves[i])
                             ELSE best_actions) :
                           score \in {evaluate_board_using_heuristic2(p.M, c.ret, color)}})
                 ELSE GreedyAgent_getAction_loop(p.M, id, color, legal_moves, i + 1,
                                                 best_score, best_actions) :
                 p \in {play_move(c.M, c.ret, legal_moves[i][1], legal_moves[i][2], color)}}) :
            c \in {deepcopy(M, id)}})

\* GreedyAgent(color).getAction(board)
GreedyAgent_getAction(M, id, color, rng) ==
  The({The({[M |-> best.M,
             ret |-> IF best.ret = << >> THEN None ELSE Choice(best.ret, rng),
             rng |-> IF best.ret = << >> THEN rng ELSE NextRng(rng)] :
            best \in {GreedyAgent_getAction_loop(legal_moves.M, id, color,
                                                  legal_moves.ret, 1, -inf, << >>)}}) :
       legal_moves \in {get_legal_moves(M, id, color)}})

\* --------------------------------------------------------------- QLearning
\* get_state(board): a tuple of the rows as tuples
get_state(board) == [x \in 1..Len(board) |-> [y \in 1..Len(board[x]) |-> board[x][y]]]

\* get_q_value(board, action): the table's entry, or the heuristic of the
\* board after a Black stone on the action.  The floats of the table are
\* held as fractions in lowest terms.
get_q_value(M, q_table, id, action) ==
  LET state == get_state(Grid(M, id))
  IN IF <<state, action>> \in DOMAIN q_table
     THEN [M |-> M, ret |-> q_table[<<state, action>>]]
     ELSE The({[M |-> b.M,
                ret |-> FracOf(evaluate_board_using_heuristic2(b.M, b.board_copy, BLACK)
                               - evaluate_board_using_heuristic2(b.M, b.board_copy, WHITE))] :
               b \in {copy_and_play(M, id, action, BLACK)}})

\* max(q_values, default=0.0)
RECURSIVE max_default(_, _, _)
max_default(q_values, i, best) ==
  IF i > Len(q_values) THEN best
  ELSE max_default(q_values, i + 1, FracMax(best, q_values[i]))

max_q_values(q_values) ==
  IF q_values = << >> THEN FracOf(0) ELSE max_default(q_values, 2, q_values[1])

RECURSIVE q_values_loop(_, _, _, _, _, _)
q_values_loop(M, q_table, id, legal_moves, i, q_values) ==
  IF i > Len(legal_moves) THEN [M |-> M, ret |-> q_values]
  ELSE The({q_values_loop(q.M, q_table, id, legal_moves, i + 1, Append(q_values, q.ret)) :
            q \in {get_q_value(M, q_table, id, legal_moves[i])}})

\* [move for move, q in zip(legal_moves, q_values) if q == max_q]
RECURSIVE best_moves(_, _, _, _)
best_moves(legal_moves, q_values, max_q, i) ==
  IF i > Len(legal_moves) THEN << >>
  ELSE (IF q_values[i] = max_q THEN <<legal_moves[i]>> ELSE << >>)
       \o best_moves(legal_moves, q_values, max_q, i + 1)

\* q_values, max_q and best_moves of choose_action, for a board that has
\* legal moves
choose_action_best_moves(M, q_table, id, legal_moves) ==
  The({[M |-> q.M, ret |-> best_moves(legal_moves, q.ret, max_q_values(q.ret), 1)] :
       q \in {q_values_loop(M, q_table, id, legal_moves, 1, << >>)}})

\* choose_action(board, color); explore is np.random.rand() < exploration_rate
QLearning_choose_action(M, q_table, id, color, explore, rng) ==
  IF explore THEN random_move(M, id, color, rng)
  ELSE The({IF legal_moves.ret = << >>
            THEN random_move(legal_moves.M, id, color, rng)
            ELSE The({[M |-> b.M, rng |-> NextRng(rng), ret |-> Choice(b.ret, rng)] :
                      b \in {choose_action_best_moves(legal_moves.M, q_table, id,
                                                       legal_moves.ret)}}) :
            legal_moves \in {get_legal_moves(M, id, color)}})

\* QLearning(): the attributes __init__ sets from its defaults
QLearningInit ==
  [learning_rate |-> Frac(3, 10), discount_factor |-> Frac(9, 10),
   exploration_rate |-> FracOf(1), exploration_decay |-> Frac(99, 100),
   min_exploration_rate |-> Frac(1, 10), q_table |-> << >>]

\* a set_q_value that starts a new table with the entry.
set_q_value_new_table(agent, state, action, value) ==
  [agent EXCEPT !.q_table = (<<state, action>> :> value)]

\* set_q_value: self.q_table[(state, action)] = float(value)
set_q_value(agent, state, action, value) ==
  [agent EXCEPT !.q_table = (<<state, action>> :> value) @@ @]

\* update_q_values(board, color, action, reward, next_board)
update_q_values(M, agent, board, color, action, reward, next_board) ==
  The({The({The({LET max_future_q == max_q_values(q.ret)
                     new_q == FracAdd(FracMul(FracSub(FracOf(1), agent.learning_rate),
                                              current_q.ret),
                                      FracMul(agent.learning_rate,
                                              FracAdd(reward,
                                                      FracMul(agent.discount_factor,
                                                              max_future_q))))
                 IN [M |-> current_q.M,
                     agent |-> set_q_value(agent, get_state(Grid(M, board)), action, new_q)] :
                 current_q \in {get_q_value(q.M, agent.q_table, board, action)}}) :
            q \in {q_values_loop(legal_moves_for_next_board.M, agent.q_table, next_board,
                                  legal_moves_for_next_board.ret, 1, << >>)}}) :
       legal_moves_for_next_board \in {get_legal_moves(M, next_board, color)}})

\* get_reward(board, color): the difference of the heuristics over 10, or
\* the outcome of the score when the colour has no legal move
get_reward(M, board, color) ==
  LET current_score == evaluate_board_using_heuristic(M, board, color)
      opponent_score == evaluate_board_using_heuristic(M, board, opponent_color(color))
      normalized_reward == Frac(current_score - opponent_score, 10)
  IN The({IF t.ret
          THEN LET result == count_score(t.M, board)
               IN [M |-> t.M,
                   ret |-> IF result[color] > result[opponent_color(color)] THEN FracOf(1)
                           ELSE IF result[BLACK] = result[WHITE] THEN FracOf(0)
                           ELSE FracOf(-1)]
          ELSE [M |-> t.M, ret |-> normalized_reward] :
          t \in {is_terminal(M, board, color)}})

\* a decay that does not stop at the floor.
decay_exploration_rate_no_floor(agent) ==
  [agent EXCEPT !.exploration_rate = FracMul(@, agent.exploration_decay)]

\* decay_exploration_rate
decay_exploration_rate(agent) ==
  [agent EXCEPT !.exploration_rate =
                  FracMax(FracMul(@, agent.exploration_decay), agent.min_exploration_rate)]

\* -------------------------------------------------------------------- MCTS
\* The tree is the sequence of its nodes, the root first; parent is an index
\* into it (0: none) and children lists <<move, index>> in insertion order.
MCTSNode(board, color, move, parent) ==
  [board |-> board, color |-> color, move |-> move, parent |-> parent,
   children |-> << >>, visits |-> 0, value |-> 0]

\* math.log(n) in units of 1e-6, for the visit counts that occur
LogScaled(n) ==
  CASE n = 1 -> 0 [] n = 2 -> 693147 [] n = 3 -> 1098612 [] n = 4 -> 1386294
    [] n = 5 -> 1609438 [] n = 6 -> 1791759 [] n = 7 -> 1945910
    [] OTHER -> 2079442

\* math.sqrt in integers: the largest r with r * r <= n
RECURSIVE SqrtLoop(_, _, _)
SqrtLoop(n, lo, hi) ==
  IF lo >= hi THEN lo
  ELSE LET mid == (lo + hi + 1) \div 2
       IN IF mid * mid <= n THEN SqrtLoop(n, mid, hi) ELSE SqrtLoop(n, lo, mid - 1)
Sqrt(n) == SqrtLoop(n, 0, 2048)

\* uct_score in units of 1e-3; exploration_weight is weight[1] / weight[2]
uct_score(tree, k, weight) ==
  IF tree[k].visits = 0 THEN inf
  ELSE LET parent_visits == IF tree[k].parent # 0 THEN tree[tree[k].parent].visits ELSE 1
       IN (tree[k].value * 1000) \div tree[k].visits
          + (weight[1] * Sqrt(LogScaled(parent_visits) \div tree[k].visits)) \div weight[2]

\* max(children.values(), key=uct_score): the first child of the largest score
RECURSIVE best_child_loop(_, _, _, _, _)
best_child_loop(tree, children, weight, i, best) ==
  IF i > Len(children) THEN best
  ELSE best_child_loop(tree, children, weight, i + 1,
                       IF best = 0 \/ uct_score(tree, children[i][2], weight)
                                      > uct_score(tree, best, weight)
                       THEN children[i][2] ELSE best)

best_child(tree, k, weight) == best_child_loop(tree, tree[k].children, weight, 1, 0)

is_fully_expanded(M, tree, k) ==
  The({[M |-> legal_moves.M, ret |-> Len(tree[k].children) = Len(legal_moves.ret)] :
       legal_moves \in {get_legal_moves(M, tree[k].board, tree[k].color)}})

\* an expansion that plays the move on the board of the node itself.
RECURSIVE MCTS_expand_loop_same_board(_, _, _, _, _, _)
MCTS_expand_loop_same_board(M, tree, k, legal_moves, i, weight) ==
  IF i > Len(legal_moves) THEN [M |-> M, tree |-> tree, ret |-> best_child(tree, k, weight)]
  ELSE IF \E j \in 1..Len(tree[k].children) : tree[k].children[j][1] = legal_moves[i]
  THEN MCTS_expand_loop_same_board(M, tree, k, legal_moves, i + 1, weight)
  ELSE The({LET child == Len(tree) + 1
                child_color == IF tree[k].color = BLACK THEN WHITE ELSE BLACK
                child_node == MCTSNode(b.board_copy, child_color, legal_moves[i], k)
            IN [M |-> b.M,
                tree |-> Append([tree EXCEPT ![k].children = Append(@, <<legal_moves[i], child>>)],
                                child_node),
                ret |-> child] :
            b \in {copy_and_play_in_place(M, tree[k].board, legal_moves[i], tree[k].color)}})

\* _expand: a child for the first legal move that has none
RECURSIVE MCTS_expand_loop(_, _, _, _, _, _)
MCTS_expand_loop(M, tree, k, legal_moves, i, weight) ==
  IF i > Len(legal_moves) THEN [M |-> M, tree |-> tree, ret |-> best_child(tree, k, weight)]
  ELSE IF \E j \in 1..Len(tree[k].children) : tree[k].children[j][1] = legal_moves[i]
  THEN MCTS_expand_loop(M, tree, k, legal_moves, i + 1, weight)
  ELSE The({LET child == Len(tree) + 1
                child_color == IF tree[k].color = BLACK THEN WHITE ELSE BLACK
                child_node == MCTSNode(b.board_copy, child_color, legal_moves[i], k)
            IN [M |-> b.M,
                tree |-> Append([tree EXCEPT ![k].children = Append(@, <<legal_moves[i], child>>)],
                                child_node),
                ret |-> child] :
            b \in {copy_and_play(M, tree[k].board, legal_moves[i], tree[k].color)}})

\* an expansion that returns the node it expanded, not the child.
MCTS_expand_returns_node(M, tree, k, weight) ==
  The({[MCTS_expand_loop(legal_moves.M, tree, k, legal_moves.ret, 1, weight)
          EXCEPT !.ret = k] :
       legal_moves \in {get_legal_moves(M, tree[k].board, tree[k].color)}})

MCTS_expand(M, tree, k, weight) ==
  The({MCTS_expand_loop(legal_moves.M, tree, k, legal_moves.ret, 1, weight) :
       legal_moves \in {get_legal_moves(M, tree[k].board, tree[k].color)}})

RECURSIVE MCTS_select(_, _, _, _)
MCTS_select(M, tree, k, weight) ==
  The({IF t.ret THEN [M |-> t.M, tree |-> tree, ret |-> k]
       ELSE The({IF f.ret THEN MCTS_select(f.M, tree, best_child(tree, k, weight), weight)
                 ELSE MCTS_expand(f.M, tree, k, weight) :
                 f \in {is_fully_expanded(t.M, tree, k)}}) :
       t \in {is_terminal(M, tree[k].board, tree[k].color)}})

\* the playout of _simulate: at most SimulationMoves moves, Black's by
\* random_move and White's by agent_white
SimulationMoves == 50

\* agent_white.getAction(board_copy), for the agents RandomAgent('WHITE') and
\* GreedyAgent('WHITE')
RolloutAgents == {"RandomAgent", "GreedyAgent"}
agent_white_getAction(M, agent_white, board_copy, rng) ==
  IF agent_white = "RandomAgent" THEN RandomAgent_getAction(M, board_copy, WHITE, rng)
  ELSE GreedyAgent_getAction(M, board_copy, WHITE, rng)

\* one round of the while loop of _simulate: its test, and the move of the
\* colour to move when the test holds
MCTS_simulate_move(M, agent_white, board_copy, current_color, i, rng) ==
  The({IF t.ret \/ ~(i < SimulationMoves)
       THEN [M |-> t.M, rng |-> rng, ret |-> None, done |-> TRUE]
       ELSE The({[M |-> a.M, rng |-> a.rng, ret |-> a.ret, done |-> FALSE] :
                 a \in {IF current_color = BLACK
                         THEN random_move(t.M, board_copy, current_color, rng)
                         ELSE agent_white_getAction(t.M, agent_white, board_copy, rng)}}) :
       t \in {is_terminal(M, board_copy, current_color)}})

\* one round of the while loop on the playout s = [M, agent_white,
\* current_color, i, rng, done]: nothing once the test has failed; a round
\* whose agent returns no move leaves the board and i as they are
MCTS_simulate_round(s, board_copy) ==
  IF s.done THEN s
  ELSE The({IF a.done THEN [s EXCEPT !.M = a.M, !.done = TRUE]
            ELSE IF a.ret # None
            THEN [s EXCEPT !.M = play_move(a.M, board_copy, a.ret[1], a.ret[2],
                                           s.current_color).M,
                           !.current_color = IF @ = BLACK THEN WHITE ELSE BLACK,
                           !.i = @ + 1, !.rng = a.rng]
            ELSE [s EXCEPT !.M = a.M, !.rng = a.rng] :
            a \in {MCTS_simulate_move(s.M, s.agent_white, board_copy, s.current_color,
                                      s.i, s.rng)}})

\* n rounds, one after the other; they are composed in halves, which keeps
\* the evaluation shallow
RECURSIVE MCTS_simulate_rounds(_, _, _)
MCTS_simulate_rounds(s, board_copy, n) ==
  IF n = 1 THEN MCTS_simulate_round(s, board_copy)
  ELSE The({MCTS_simulate_rounds(half, board_copy, n - n \div 2) :
            half \in {MCTS_simulate_rounds(s, board_copy, n \div 2)}})

\* a playout valued for the colour of the node it starts from.
MCTS_simulate_loop_for_node_color(M, agent_white, board_copy, current_color, i, rng) ==
  The({[M |-> s.M, rng |-> s.rng,
        ret |-> evaluate_board_using_heuristic(s.M, board_copy, current_color),
        done |-> s.done, board_copy |-> board_copy, i |-> s.i,
        current_color |-> s.current_color] :
       s \in {MCTS_simulate_rounds(
                [M |-> M, agent_white |-> agent_white, current_color |-> current_color,
                 i |-> i, rng |-> rng, done |-> FALSE],
                board_copy, SimulationMoves + 1)}})

\* the while loop: SimulationMoves rounds that play a move at most, and the
\* round whose test fails; done tells that the test has failed within these
\* rounds, and the record names the board played on, the plies played and
\* the colour to move at the end
MCTS_simulate_loop(M, agent_white, board_copy, current_color, i, rng) ==
  The({[M |-> s.M, rng |-> s.rng,
        ret |-> evaluate_board_using_heuristic(s.M, board_copy, BLACK),
        done |-> s.done, board_copy |-> board_copy, i |-> s.i,
        current_color |-> s.current_color] :
       s \in {MCTS_simulate_rounds(
                [M |-> M, agent_white |-> agent_white, current_color |-> current_color,
                 i |-> i, rng |-> rng, done |-> FALSE],
                board_copy, SimulationMoves + 1)}})

\* _simulate of a search built with the rollout agent agent_white
MCTS_simulate_with(M, agent_white, tree, k, rng) ==
  The({MCTS_simulate_loop(c.M, agent_white, c.ret, tree[k].color, 0, rng) :
       c \in {copy(M, tree[k].board)}})

\* _simulate of the search the driver builds: agent_white is its
\* greedy_agent_white
MCTS_simulate(M, tree, k, rng) == MCTS_simulate_with(M, "GreedyAgent", tree, k, rng)

\* a walk that stops below the root.
RECURSIVE MCTS_backpropagate_below_root(_, _, _)
MCTS_backpropagate_below_root(tree, k, reward) ==
  IF k = 0 \/ tree[k].parent = 0 THEN tree
  ELSE MCTS_backpropagate_below_root(
         [tree EXCEPT ![k].visits = @ + 1, ![k].value = @ + reward],
         tree[k].parent, reward)

RECURSIVE MCTS_backpropagate(_, _, _)
MCTS_backpropagate(tree, k, reward) ==
  IF k = 0 THEN tree
  ELSE MCTS_backpropagate([tree EXCEPT ![k].visits = @ + 1, ![k].value = @ + reward],
                          tree[k].parent, reward)

RECURSIVE MCTS_mcts_search_loop(_, _, _, _, _)
MCTS_mcts_search_loop(M, tree, iterations, weight, rng) ==
  IF iterations = 0 THEN [M |-> M, tree |-> tree, rng |-> rng]
  ELSE The({The({MCTS_mcts_search_loop(
                   reward.M, MCTS_backpropagate(node.tree, node.ret, reward.ret),
                   iterations - 1, weight, reward.rng) :
                 reward \in {MCTS_simulate(node.M, node.tree, node.ret, rng)}}) :
            node \in {MCTS_select(M, tree, 1, weight)}})

\* a search that falls back to the first legal move of the root when the
\* root has no child.
MCTS_mcts_search_first_legal(M, board, color, mcts_iterations, exploration_weight, rng) ==
  The({LET best_node == best_child(s.tree, 1, <<0, 1>>)
           legal_moves == get_legal_moves(s.M, board, color).ret
       IN [M |-> s.M, rng |-> s.rng,
           ret |-> IF best_node # 0 THEN s.tree[best_node].move
                   ELSE IF legal_moves # << >> THEN legal_moves[1] ELSE None] :
       s \in {MCTS_mcts_search_loop(M, <<MCTSNode(board, color, None, 0)>>,
                                     mcts_iterations, exploration_weight, rng)}})

\* a search that returns the move of the root.
MCTS_mcts_search_root_move(M, board, color, mcts_iterations, exploration_weight, rng) ==
  The({[M |-> s.M, rng |-> s.rng, ret |-> s.tree[1].move] :
       s \in {MCTS_mcts_search_loop(M, <<MCTSNode(board, color, None, 0)>>,
                                     mcts_iterations, exploration_weight, rng)}})

\* MCTS(board, color, agent_white, mcts_iterations, exploration_weight).mcts_search()
MCTS_mcts_search(M, board, color, mcts_iterations, exploration_weight, rng) ==
  The({LET best_node == best_child(s.tree, 1, <<0, 1>>)
       IN [M |-> s.M, rng |-> s.rng,
           ret |-> IF best_node # 0 THEN s.tree[best_node].move ELSE None] :
       s \in {MCTS_mcts_search_loop(M, <<MCTSNode(board, color, None, 0)>>,
                                     mcts_iterations, exploration_weight, rng)}})

\* ------------------------------------------------------------------ state
VARIABLES
  heap,   \* the GoBoard instances, their grids and the previous_boards set
  game,   \* the fields of the GoGame driver
  last    \* the last call: its arguments, return value and return path

vars == <<heap, game, last>>

\* Object identities are not observable: after an operation the instances
\* the caller still holds are kept, and their grids are renumbered.
Normalize(M) ==
  LET ids == DOMAIN M.objs \cap {MainId, CopyId}
      ref1 == M.objs[MainId].board
      Ren(r) == IF r = ref1 THEN MainId ELSE CopyId
  IN [sets |-> (SetId :> M.sets[SetId]),
      objs |-> [id \in ids |-> [M.objs[id] EXCEPT !.board = Ren(@)]],
      store |-> [r \in {Ren(M.objs[id].board) : id \in ids} |->
                   IF r = MainId THEN M.store[ref1] ELSE M.store[M.objs[CopyId].board]]]

\* the accepted moves a board has seen: its stones and the stones taken off it
Placed(M, id) ==
  Cardinality({p \in Coord(M.objs[id].size) : At(Grid(M, id), p) # None})
  + M.objs[id].captured[BLACK] + M.objs[id].captured[WHITE]

NoCall == [op |-> "none"]
NoGame == [driver |-> "none"]

Init ==
  /\ heap = GoBoardInit(EmptyHeap, MainId, MainId, N, SetId)
  /\ game = NoGame
  /\ last = NoCall

\* ------------------------------------------------- the rules, stated anew
\* The definitions below restate the rules of the game without the code's
\* flood fill: they are what the claims compare the code with.
Adjacent(p, q) ==
  \/ p[1] = q[1] /\ (p[2] = q[2] + 1 \/ q[2] = p[2] + 1)
  \/ p[2] = q[2] /\ (p[1] = q[1] + 1 \/ q[1] = p[1] + 1)

RECURSIVE Connected(_, _, _, _)
Connected(size, board, color, S) ==
  LET T == S \cup {q \in Coord(size) : At(board, q) = color /\ \E p \in S : Adjacent(p, q)}
  IN IF T = S THEN S ELSE Connected(size, board, color, T)

\* the maximal 4-connected same-colour set that holds p
GroupOf(size, board, p) == Connected(size, board, At(board, p), {p})

LibertiesOf(size, board, G) ==
  {q \in Coord(size) : At(board, q) = None /\ \E p \in G : Adjacent(p, q)}

WithStone(board, p, color) == [board EXCEPT ![p[1] + 1][p[2] + 1] = color]

\* the cells of the opposing groups next to p that have no liberty once a
\* stone of `color` stands on p
DeadAround(size, board, p, color) ==
  LET placed == WithStone(board, p, color)
  IN UNION {GroupOf(size, placed, q) :
              q \in {n \in Coord(size) :
                       /\ Adjacent(p, n)
                       /\ At(placed, n) = opponent_color(color)
                       /\ LibertiesOf(size, placed, GroupOf(size, placed, n)) = {}}}

\* what a caller can observe of an instance
View(M, id) ==
  [size |-> M.objs[id].size, board |-> Grid(M, id),
   captured |-> M.objs[id].captured, last_captured |-> M.objs[id].last_captured,
   previous_boards |-> PreviousBoards(M, id)]

MainGrid == Grid(heap, MainId)
Moves == {"play_move", "play_actual_move"}

\* ------------------------------------------------------------------ claims
\* C1: in every board reachable from the empty board by play_move and
\* play_actual_move calls (accepted or rejected), every maximal 4-connected
\* same-colour group has at least one adjacent empty cell.
C1_EveryGroupHasLiberty ==
  \A p \in Coord(N) :
    At(MainGrid, p) # None => LibertiesOf(N, MainGrid, GroupOf(N, MainGrid, p)) # {}

\* a capture has been made, and a stone is left with a single liberty
C1_Witness ==
  /\ last.op \in Moves /\ last.path = "capture"
  /\ \E p \in Coord(N) :
       /\ At(MainGrid, p) # None
       /\ Cardinality(LibertiesOf(N, MainGrid, GroupOf(N, MainGrid, p))) = 1

\* a placement on an empty cell that takes no opposing group and leaves the
\* placed stone's group without a liberty
IsSelfCapture(size, board, p, color) ==
  /\ At(board, p) = None
  /\ DeadAround(size, board, p, color) = {}
  /\ LET placed == WithStone(board, p, color)
     IN LibertiesOf(size, placed, GroupOf(size, placed, p)) = {}

\* C2: a self-capture is rejected by play_move and by play_actual_move: the
\* call returns false and the grid, both counters and last_captured are what
\* they were before the call.
C2_SelfCaptureRejected ==
  \A p \in Coord(N), color \in Colors :
    IsSelfCapture(N, MainGrid, p, color) =>
      /\ LET r == play_move(heap, MainId, p[1], p[2], color)
         IN ~r.ret /\ View(r.M, MainId) = View(heap, MainId)
      /\ LET r == play_actual_move(heap, MainId, p[1], p[2], color)
         IN ~r.ret /\ View(r.M, MainId) = View(heap, MainId)

\* a self-capture has just been tried and rolled back
C2_Witness ==
  /\ last.op \in Moves /\ last.path = "rollback" /\ ~last.ret
  /\ IsSelfCapture(N, MainGrid, <<last.x, last.y>>, last.color)

\* C3: after an accepted play_move(x, y, c) every opposing group next to
\* (x, y) that had no liberty once the stone was placed is empty, no other
\* stone is removed, captured[opponent] has grown by the number of stones
\* removed and captured[c] is unchanged.
C3_CaptureAtomic ==
  \A p \in Coord(N), color \in Colors :
    LET r == play_move(heap, MainId, p[1], p[2], color)
        dead == DeadAround(N, MainGrid, p, color)
        placed == WithStone(MainGrid, p, color)
        before == heap.objs[MainId].captured
        after == r.M.objs[MainId].captured
    IN r.ret =>
         /\ \A q \in Coord(N) :
              At(Grid(r.M, MainId), q) = IF q \in dead THEN None ELSE At(placed, q)
         /\ after[opponent_color(color)] = before[opponent_color(color)] + Cardinality(dead)
         /\ after[color] = before[color]

\* Black's stone on (0,1) has just taken the two separate white stones of
\* the corners (0,0) and (0,2)
C3_Witness ==
  /\ last = [op |-> "play_move", on |-> MainId, x |-> 0, y |-> 1, color |-> BLACK,
             ret |-> TRUE, path |-> "capture"]
  /\ MainGrid = << <<None, BLACK, None>>, <<BLACK, None, BLACK>>, <<None, None, None>> >>
  /\ heap.objs[MainId].captured = [c \in Colors |-> IF c = WHITE THEN 2 ELSE 0]

\* the inputs of a call: every cell of the board, and a cell off the board
\* below and above the range
OffBoard(size) == {<<-1, 0>>, <<0, size>>}
Inputs(size) == Coord(size) \cup OffBoard(size)

\* the record of a call; a call that returned at the first check is recorded
\* without its arguments
Call(op, on, p, color, ret, path) ==
  IF path = "invalid"
  THEN [op |-> op, on |-> on, ret |-> ret, path |-> path]
  ELSE [op |-> op, on |-> on, x |-> p[1], y |-> p[2], color |-> color,
        ret |-> ret, path |-> path]

PlayMove ==
  /\ Placed(heap, MainId) < MaxStones
  /\ \E p \in Inputs(N), color \in Colors :
       \E r \in {play_move(heap, MainId, p[1], p[2], color)} :
          /\ heap' = Normalize(r.M)
          /\ last' = Call("play_move", MainId, p, color, r.ret, r.path)
  /\ UNCHANGED game

PlayActualMove ==
  /\ Placed(heap, MainId) < MaxStones
  /\ \E p \in Inputs(N), color \in Colors :
       \E r \in {play_actual_move(heap, MainId, p[1], p[2], color)} :
          /\ heap' = Normalize(r.M)
          /\ last' = Call("play_actual_move", MainId, p, color, r.ret, r.path)
  /\ UNCHANGED game

Next ==
  \/ PlayMove
  \/ PlayActualMove

Spec == Init /\ [][Next]_vars


\* ------------------------------------------------------ a board and a copy
\* b2 = b.copy(): the caller keeps the returned instance as its copy
Bind(M, id) ==
  [M EXCEPT !.objs = [i \in (DOMAIN M.objs \ {id}) \cup {CopyId} |->
                        IF i = CopyId THEN M.objs[id] ELSE M.objs[i]]]

HasCopy == CopyId \in DOMAIN heap.objs
CopyGrid == Grid(heap, CopyId)
PlacedBoth == Placed(heap, MainId) + (IF HasCopy THEN Placed(heap, CopyId) ELSE 0)

InitCopy ==
  /\ heap = GoBoardInit(EmptyHeap, MainId, MainId, NCopy, SetId)
  /\ game = NoGame
  /\ last = NoCall

CopyBoard ==
  /\ ~HasCopy
  /\ \E r \in {copy(heap, MainId)} :
       /\ heap' = Normalize(Bind(r.M, r.ret))
       /\ last' = [op |-> "copy", on |-> MainId]
  /\ UNCHANGED game

PlayMoveOnOriginal ==
  /\ PlacedBoth < MaxCopyStones
  /\ \E p \in Inputs(NCopy), color \in Colors :
       \E r \in {play_move(heap, MainId, p[1], p[2], color)} :
          /\ heap' = Normalize(r.M)
          /\ last' = Call("play_move", MainId, p, color, r.ret, r.path)
  /\ UNCHANGED game

PlayMoveOnCopy ==
  /\ HasCopy
  /\ PlacedBoth < MaxCopyStones
  /\ \E p \in Inputs(NCopy), color \in Colors :
       \E r \in {play_move(heap, CopyId, p[1], p[2], color)} :
          /\ heap' = Normalize(r.M)
          /\ last' = Call("play_move", CopyId, p, color, r.ret, r.path)
  /\ UNCHANGED game

NextCopy ==
  \/ PlayMoveOnOriginal
  \/ CopyBoard
  \/ PlayMoveOnCopy

SpecCopy == InitCopy /\ [][NextCopy]_vars

\* C8: a board returned by copy() shares no cell storage with the original:
\* no play_move on the copy changes a cell of the original and no play_move
\* on the original changes a cell of the copy.
C8_CopySharesNoCells ==
  HasCopy =>
    /\ heap.objs[CopyId].board # heap.objs[MainId].board
    /\ \A p \in Inputs(NCopy), color \in Colors :
         /\ Grid(play_move(heap, CopyId, p[1], p[2], color).M, MainId) = MainGrid
         /\ Grid(play_move(heap, MainId, p[1], p[2], color).M, CopyId) = CopyGrid

\* a capture has just been made on the copy: a stone of the original is gone
\* from the copy and a stone of the copy is not on the original
C8_Witness ==
  /\ HasCopy
  /\ last.op = "play_move" /\ last.on = CopyId /\ last.path = "capture"
  /\ \E p, q \in Coord(NCopy) :
       /\ At(MainGrid, p) # None /\ At(CopyGrid, p) = None
       /\ At(MainGrid, q) = None /\ At(CopyGrid, q) # None

\* C9: immediately after b2 = b.copy(), b2 has the size, the cell grid and
\* the capture counters of b, for every reachable board b.
C9_CopyIsFullClone ==
  last.op = "copy" =>
    /\ heap.objs[CopyId].size = heap.objs[MainId].size
    /\ CopyGrid = MainGrid
    /\ heap.objs[CopyId].captured = heap.objs[MainId].captured

\* -------------------------------------------------------------- the driver
\* GoGame with the random strategy for both colours.  opening is the run of
\* draws random.choice makes first in the first game; free counts the draws
\* of the game made after it; history lists the grids previous_boards was
\* given, in order.
HasBoard(M) == MainId \in DOMAIN M.objs

GoGameInit ==
  [current_color |-> BLACK, game_over |-> FALSE, finished |-> FALSE,
   current_game |-> 0, results |-> << >>, opening |-> << >>, free |-> 0,
   history |-> << >>, boards_created |-> 0,
   black_strategy |-> "random", first_turn |-> TRUE]

\* a white stone is taken and the position of a few moves before comes back
KoOpening ==
  << <<1, 0>>, <<2, 0>>, <<1, 2>>, <<2, 2>>, <<2, 1>>, <<0, 0>>, <<2, 0>>,
     <<0, 2>>, <<2, 2>>, <<1, 1>>, <<1, 2>>, <<0, 1>> >>

\* after these draws Black has no legal move
ShortGame ==
  << <<2, 2>>, <<0, 1>>, <<2, 1>>, <<1, 0>>, <<2, 0>>, <<1, 2>> >>

\* after these draws neither colour has a legal move
LongGame ==
  << <<1, 0>>, <<1, 1>>, <<2, 2>>, <<0, 2>>, <<1, 2>>, <<2, 1>>, <<2, 0>>,
     <<1, 2>>, <<0, 0>>, <<0, 1>>, <<1, 0>>, <<2, 2>>, <<2, 0>>, <<0, 0>>,
     <<1, 0>>, <<2, 0>> >>

\* a game that ends with neither colour able to move, and after it a game
\* that ends with Black unable to move
TwoGames == LongGame \o ShortGame

Openings == {<< >>, KoOpening, ShortGame, LongGame, TwoGames}

\* RandomAgent.getAction: the legal moves, and the values random.choice may
\* return for them
getAction(M, id, color) == get_legal_moves(M, id, color)

Draws(g, legal_moves) ==
  IF g.opening # << >> THEN {Head(g.opening)} \cap Range(legal_moves)
  ELSE IF g.free < MaxFree THEN Range(legal_moves) ELSE {}

RECURSIVE any_legal_move(_, _, _, _)
any_legal_move(M, id, color, i) ==
  LET size == M.objs[id].size
  IN IF i > size * size THEN [M |-> M, ret |-> FALSE]
     ELSE The({IF r.ret THEN [M |-> r.M, ret |-> TRUE]
               ELSE any_legal_move(r.M, id, color, i + 1) :
               r \in {is_legal_move(M, id, RowMajor(size)[i][1], RowMajor(size)[i][2], color)}})

is_game_over(M) ==
  The({The({[M |-> white_moves.M, ret |-> ~black_moves.ret /\ ~white_moves.ret] :
            white_moves \in {any_legal_move(black_moves.M, MainId, WHITE, 1)}}) :
       black_moves \in {any_legal_move(M, MainId, BLACK, 1)}})

\* the reset that leaves previous_boards as the finished game left it
reset_game_keeps_previous_boards(M, g) ==
  [M |-> [M EXCEPT !.objs = [i \in DOMAIN M.objs \ {MainId} |-> M.objs[i]]],
   game |-> [g EXCEPT !.current_color = BLACK, !.game_over = FALSE,
                      !.free = 0, !.history = << >>, !.first_turn = TRUE]]

reset_game(M, g) ==
  [M |-> [M EXCEPT !.objs = [i \in DOMAIN M.objs \ {MainId} |-> M.objs[i]],
                   !.sets[SetId] = {}],
   game |-> [g EXCEPT !.current_color = BLACK, !.game_over = FALSE,
                      !.free = 0, !.history = << >>, !.first_turn = TRUE]]

end_game(M, g) ==
  LET g1 == IF HasBoard(M) /\ g.current_game < NumGames
            THEN [g EXCEPT !.results = Append(@, count_score(M, MainId))]
            ELSE g
  IN IF g1.current_game < NumGames
     THEN reset_game(M, [g1 EXCEPT !.current_game = @ + 1])
     ELSE [M |-> M, game |-> [g1 EXCEPT !.finished = TRUE]]

\* the step that hands the turn over and records the grid also when the
\* move was refused.
play_game_step_played_always_advances(M, g, move, played) ==
  LET drawn == [g EXCEPT !.opening = IF @ = << >> THEN @ ELSE Tail(@),
                         !.free = IF g.opening = << >> THEN @ + 1 ELSE @]
      g1 == [drawn EXCEPT !.current_color = opponent_color(@),
                          !.history = Append(@, AsTuple(Grid(M, MainId)))]
  IN The({[M |-> over.M, game |-> [g1 EXCEPT !.game_over = @ \/ over.ret],
           path |-> IF played THEN "moved" ELSE "refused", move |-> move] :
          over \in {is_game_over(
                      [M EXCEPT !.sets[SetId] = @ \cup {AsTuple(Grid(M, MainId))}])}})

\* the step after the strategy has returned `move`
play_game_step_played(M, g, move, played) ==
  LET drawn == [g EXCEPT !.opening = IF @ = << >> THEN @ ELSE Tail(@),
                         !.free = IF g.opening = << >> THEN @ + 1 ELSE @]
      g1 == IF played
            THEN [drawn EXCEPT !.current_color = opponent_color(@),
                               !.history = Append(@, AsTuple(Grid(M, MainId)))]
            ELSE drawn
  IN The({[M |-> over.M, game |-> [g1 EXCEPT !.game_over = @ \/ over.ret],
           path |-> IF played THEN "moved" ELSE "refused", move |-> move] :
          over \in {is_game_over(
                      IF played
                      THEN [M EXCEPT !.sets[SetId] = @ \cup {AsTuple(Grid(M, MainId))}]
                      ELSE M)}})

play_game_step_move(M, g, move) ==
  The({play_game_step_played(r.M, g, move, r.ret) :
       r \in {play_actual_move(M, MainId, move[1], move[2], g.current_color)}})

\* the step when the strategy has returned None
play_game_step_none(M, g) ==
  LET g1 == [g EXCEPT !.results = Append(@, count_score(M, MainId)),
                      !.current_game = @ + 1]
      e == IF g1.current_game >= NumGames
           THEN LET f == end_game(M, g1)
                IN [M |-> f.M, game |-> [f.game EXCEPT !.finished = TRUE]]
           ELSE reset_game(M, g1)
  IN [M |-> e.M, game |-> e.game, path |-> "no_move", move |-> None]

\* expectimax_strategy: the move (3, 0) on the first turn of a game, and
\* Expectimax(self.board, self.current_color).expectimax(depth=4) after it
ExpectimaxDepth == 4
expectimax_strategy(M, g) ==
  IF g.first_turn
  THEN [M |-> M, game |-> [g EXCEPT !.first_turn = FALSE], ret |-> <<3, 0>>]
  ELSE The({[M |-> r.M, game |-> g, ret |-> r.ret.move] :
            r \in {Expectimax_expectimax(M, MainId, g.current_color, ExpectimaxDepth)}})

\* the step of Black when black_strategy is "expectimax"; like the draws,
\* the searches stop after MaxFree moves
play_game_step_expectimax(M, g) ==
  IF g.free >= MaxFree THEN {}
  ELSE {IF s.ret = None THEN play_game_step_none(s.M, s.game)
        ELSE play_game_step_move(s.M, s.game, s.ret) :
        s \in {expectimax_strategy(M, g)}}

\* play_game_step: the outcomes of one step, one for each value the
\* strategy's random.choice may return
play_game_step(M, g) ==
  IF g.finished THEN {[M |-> M, game |-> g, path |-> "finished", move |-> None]}
  ELSE IF g.game_over
  THEN LET e == end_game(M, g)
       IN {[M |-> e.M, game |-> e.game, path |-> "game_over", move |-> None]}
  ELSE IF ~HasBoard(M)
  THEN {[M |-> GoBoardInit(M, MainId, MainId, N, SetId),
         game |-> [g EXCEPT !.current_color = BLACK, !.boards_created = @ + 1],
         path |-> "new_board", move |-> None]}
  ELSE IF g.current_color = BLACK /\ g.black_strategy = "expectimax"
  THEN play_game_step_expectimax(M, g)
  ELSE UNION {IF a.ret = << >>
              THEN {play_game_step_none(a.M, g)}
              ELSE {play_game_step_move(a.M, g, move) : move \in Draws(g, a.ret)} :
              a \in {getAction(M, MainId, g.current_color)}}

InitGame ==
  /\ heap = EmptyHeap
  /\ game \in {[GoGameInit EXCEPT !.opening = o] : o \in Openings}
  /\ last = NoCall

PlayGameStep ==
  \E r \in play_game_step(heap, game) :
    /\ heap' = Normalize(r.M)
    /\ game' = r.game
    /\ last' = [op |-> "play_game_step", path |-> r.path, move |-> r.move]

NextGame == PlayGameStep

SpecGame == InitGame /\ [][NextGame]_vars

\* what play_move does to a clone of the board: accepted, and the clone's
\* grid once the captures are made
PlayedOnClone(M, id, p, color) ==
  The({The({[ret |-> r.ret, board |-> AsTuple(Grid(r.M, c.ret))] :
            r \in {play_move(c.M, c.ret, p[1], p[2], color)}}) :
       c \in {copy(M, id)}})

\* C4: for every reachable board, every cell of the board and every colour,
\* is_legal_move returns true exactly when play_move on a clone of the board
\* is accepted and the clone's grid after the captures is not in
\* previous_boards.
C4_LegalIffPlayable ==
  HasBoard(heap) =>
    \A p \in Coord(N), color \in Colors :
      is_legal_move(heap, MainId, p[1], p[2], color).ret
        = The({r.ret /\ r.board \notin PreviousBoards(heap, MainId) :
               r \in {PlayedOnClone(heap, MainId, p, color)}})

\* C5: in a game run by the driver the grid after an accepted move never
\* equals the grid after an earlier accepted move of the same game.
C5_PositionalSuperko ==
  \A i, j \in 1..Len(game.history) : i < j => game.history[i] # game.history[j]

\* C6: is_legal_move, get_legal_moves and is_terminal never mutate the
\* receiver: after the call its grid, capture counters, last_captured and
\* previous_boards are what they were before the call.
C6_QueriesDoNotMutate ==
  HasBoard(heap) =>
    \A color \in Colors :
      /\ \A p \in Coord(N) :
           View(is_legal_move(heap, MainId, p[1], p[2], color).M, MainId) = View(heap, MainId)
      /\ View(get_legal_moves(heap, MainId, color).M, MainId) = View(heap, MainId)
      /\ View(is_terminal(heap, MainId, color).M, MainId) = View(heap, MainId)

\* a game in progress with a history, on a board where one query removes a
\* group from its scratch board and another meets a grid of previous_boards
C6_Witness ==
  /\ HasBoard(heap) /\ last.op = "play_game_step" /\ last.path = "moved"
  /\ PreviousBoards(heap, MainId) # {}
  /\ heap.objs[MainId].last_captured # [c \in Colors |-> NoGroup]
  /\ \E p \in Coord(N), color \in Colors :
       is_legal_move(heap, MainId, p[1], p[2], color).path = "capture"
  /\ \E p \in Coord(N), color \in Colors :
       is_legal_move(heap, MainId, p[1], p[2], color).path = "ko_after_capture"

\* ---------------------------------------------------------- the strategies
\* The strategies called on the board of a game in progress.  The driver
\* plays the random strategy for both colours, first the draws of an opening
\* and then free ones; a strategy is called on its board once the opening is
\* played and returns a move, which is recorded and not played.
MaxDepth == 3           \* the depths 1..MaxDepth of the tree searches
MaxSeed == 1            \* the generator states 0..MaxSeed a call starts in
MctsIterations == 2     \* mcts_iterations
MaxSearchFree == 1      \* strategies are called up to this many free draws

\* no stone is taken in it; White is to move
QuietOpening == << <<0, 2>>, <<1, 1>>, <<2, 0>>, <<0, 0>>, <<1, 0>> >>
\* no stone is taken in it either; the white corner stone is left one liberty
AtariOpening == << <<2, 1>>, <<0, 0>>, <<0, 2>>, <<1, 1>>, <<0, 1>> >>
\* Black's second stone takes the white stone of the corner
CaptureOpening == << <<0, 1>>, <<0, 0>>, <<1, 0>> >>
SearchOpenings == {QuietOpening, AtariOpening, CaptureOpening, ShortGame}

LeafEvaluators == {"evaluate_board", "heuristic"}
Strategies ==
  {"Minimax.minimax", "MinimaxAlphaBeta.minimax", "Expectimax.expectimax",
   "MCTS.mcts_search", "GreedyAgent.getAction", "RandomAgent.getAction",
   "QLearning.choose_action"}

\* exploration_weight=1.5
ExplorationWeight == <<3, 2>>

\* the tables choose_action is called with: the empty one, and one that
\* knows the centre move on the board at hand
QTables(board) == {<< >>, (<<get_state(board), <<1, 1>>>> :> FracOf(inf))}

CanCall ==
  /\ HasBoard(heap)
  /\ last.op = "play_game_step"
  /\ game.opening = << >>
  /\ game.free <= MaxSearchFree

\* the record of a call: its arguments, what it returned, and the board and
\* the legal moves of the colour as they were when it was made
Searched(op, color, depth, leaf, ret) ==
  [op |-> op, color |-> color, depth |-> depth, leaf |-> leaf, ret |-> ret,
   before |-> View(heap, MainId),
   legal_moves |-> get_legal_moves(heap, MainId, color).ret]

Chosen(op, color, rng, ret) ==
  [op |-> op, color |-> color, rng |-> rng, ret |-> [move |-> ret],
   before |-> View(heap, MainId),
   legal_moves |-> get_legal_moves(heap, MainId, color).ret]

CallMinimax ==
  /\ CanCall
  /\ \E color \in Colors, depth \in 1..MaxDepth, leaf \in LeafEvaluators :
       \E r \in {Minimax_minimax(heap, MainId, color, depth, leaf)} :
          /\ heap' = Normalize(r.M)
          /\ last' = Searched("Minimax.minimax", color, depth, leaf, r.ret)
  /\ UNCHANGED game

CallMinimaxAlphaBeta ==
  /\ CanCall
  /\ \E color \in Colors, depth \in 1..MaxDepth, leaf \in LeafEvaluators :
       \E r \in {MinimaxAlphaBeta_minimax(heap, MainId, color, depth, leaf)} :
          /\ heap' = Normalize(r.M)
          /\ last' = Searched("MinimaxAlphaBeta.minimax", color, depth, leaf, r.ret)
  /\ UNCHANGED game

CallExpectimax ==
  /\ CanCall
  /\ \E color \in Colors, depth \in 1..MaxDepth :
       \E r \in {Expectimax_expectimax(heap, MainId, color, depth)} :
          /\ heap' = Normalize(r.M)
          /\ last' = Searched("Expectimax.expectimax", color, depth, "heuristic2", r.ret)
  /\ UNCHANGED game

CallMCTS ==
  /\ CanCall
  /\ game.free = 0
  /\ \E rng \in 0..MaxSeed, mcts_iterations \in 0..MctsIterations :
       \E r \in {MCTS_mcts_search(heap, MainId, game.current_color, mcts_iterations,
                                  ExplorationWeight, rng)} :
          /\ heap' = Normalize(r.M)
          /\ last' = [op |-> "MCTS.mcts_search", color |-> game.current_color,
                       rng |-> rng, ret |-> [move |-> r.ret],
                       before |-> View(heap, MainId),
                       legal_moves |-> get_legal_moves(heap, MainId, game.current_color).ret,
                       iterations |-> mcts_iterations]
  /\ UNCHANGED game

CallGreedyAgent ==
  /\ CanCall
  /\ \E color \in Colors, rng \in 0..MaxSeed :
       \E r \in {GreedyAgent_getAction(heap, MainId, color, rng)} :
          /\ heap' = Normalize(r.M)
          /\ last' = Chosen("GreedyAgent.getAction", color, rng, r.ret)
  /\ UNCHANGED game

CallRandomAgent ==
  /\ CanCall
  /\ \E color \in Colors, rng \in 0..MaxSeed :
       \E r \in {RandomAgent_getAction(heap, MainId, color, rng)} :
          /\ heap' = Normalize(r.M)
          /\ last' = Chosen("RandomAgent.getAction", color, rng, r.ret)
  /\ UNCHANGED game

CallQLearning ==
  /\ CanCall
  /\ \E color \in Colors, rng \in 0..MaxSeed, explore \in BOOLEAN,
        q_table \in QTables(MainGrid) :
       \E r \in {QLearning_choose_action(heap, q_table, MainId, color, explore, rng)} :
          /\ heap' = Normalize(r.M)
          /\ last' = Chosen("QLearning.choose_action", color, rng, r.ret)
  /\ UNCHANGED game

InitSearch ==
  /\ heap = EmptyHeap
  /\ game \in {[GoGameInit EXCEPT !.opening = o] : o \in SearchOpenings}
  /\ last = NoCall

NextSearch ==
  \/ PlayGameStep
  \/ CallMinimax
  \/ CallMinimaxAlphaBeta
  \/ CallExpectimax
  \/ CallMCTS
  \/ CallGreedyAgent
  \/ CallRandomAgent
  \/ CallQLearning

SpecSearch == InitSearch /\ [][NextSearch]_vars

\* C7: no strategy corrupts the caller's board: after Minimax.minimax,
\* MinimaxAlphaBeta.minimax, Expectimax.expectimax, MCTS.mcts_search,
\* GreedyAgent.getAction, RandomAgent.getAction or QLearning.choose_action
\* returns, the board passed in has the cell grid, capture counters,
\* last_captured record and previous_boards set it had before the call.
C7_StrategiesKeepBoard ==
  last.op \in Strategies => View(heap, MainId) = last.before

\* a tree search of the full depth has returned a move on a board that has
\* seen a capture: its counters, last_captured and previous_boards are set
C7_Witness ==
  /\ last.op = "Minimax.minimax" /\ last.depth = MaxDepth
  /\ last.ret.move # None
  /\ heap.objs[MainId].captured # [c \in Colors |-> 0]
  /\ heap.objs[MainId].last_captured # [c \in Colors |-> NoGroup]
  /\ PreviousBoards(heap, MainId) # {}

\* C10: for every board, colour and depth D >= 1, and the same leaf
\* evaluator in both searches, MinimaxAlphaBeta.minimax(D) returns the best
\* move and the best-move value that Minimax.minimax(D) returns.
C10_AlphaBetaSameResult ==
  last.op = "MinimaxAlphaBeta.minimax" =>
    last.ret = Minimax_minimax(heap, MainId, last.color, last.depth, last.leaf).ret

\* C11: every strategy returns none as its move when get_legal_moves(colour)
\* is empty for the colour it is called with: the three tree searches return
\* (None, value) and MCTS.mcts_search, GreedyAgent.getAction,
\* RandomAgent.getAction and QLearning.choose_action return None.
C11_NoMoveWhenNoneLegal ==
  (last.op \in Strategies /\ last.legal_moves = << >>) => last.ret.move = None

\* MCTS has run its iterations on a board where the colour to move has no
\* legal move although cells are empty, and returned None
C11_Witness ==
  /\ last.op = "MCTS.mcts_search" /\ last.legal_moves = << >>
  /\ last.ret.move = None
  /\ \E p \in Coord(N) : At(MainGrid, p) = None

\* --------------------------------------------------------------- the score
\* the maximal 4-connected empty region that holds the empty cell p, the
\* stones that border it, and the empty cells of the regions bordered by
\* stones of `color` alone
RegionOf(size, board, p) == Connected(size, board, None, {p})

BorderOf(size, board, R) ==
  {q \in Coord(size) : At(board, q) # None /\ \E p \in R : Adjacent(p, q)}

TerritoryOf(size, board, color) ==
  {p \in Coord(size) :
     /\ At(board, p) = None
     /\ BorderOf(size, board, RegionOf(size, board, p)) # {}
     /\ \A q \in BorderOf(size, board, RegionOf(size, board, p)) : At(board, q) = color}

\* C12: for every board, count_score()[c] is the number of empty cells in
\* the maximal 4-connected empty regions whose bordering stones are all of
\* colour c, regions of two or more cells included, plus captured[opponent(c)].
C12_ScoreIsTerritoryPlusCaptures ==
  \A c \in Colors :
    count_score(heap, MainId)[c]
      = Cardinality(TerritoryOf(N, MainGrid, c)) + heap.objs[MainId].captured[opponent_color(c)]

\* a small board, and play_move calls on it for as long as MaxScoreMoves
\* moves have not been accepted
MaxScoreMoves == 7

PlayMoveScore ==
  /\ Placed(heap, MainId) < MaxScoreMoves
  /\ \E p \in Inputs(NCopy), color \in Colors :
       \E r \in {play_move(heap, MainId, p[1], p[2], color)} :
          /\ heap' = Normalize(r.M)
          /\ last' = Call("play_move", MainId, p, color, r.ret, r.path)
  /\ UNCHANGED game

NextScore == PlayMoveScore

SpecScore == InitCopy /\ [][NextScore]_vars

\* C13: in every board reachable from the empty board by play_move calls,
\* count_score()['BLACK'] + count_score()['WHITE'] <= size * size.
C13_ScoresWithinBoard ==
  count_score(heap, MainId)[BLACK] + count_score(heap, MainId)[WHITE]
    <= heap.objs[MainId].size * heap.objs[MainId].size

\* ------------------------------------------- expectimax, as it is described
\* The search with the searching colour's nodes taking the maximum and the
\* opponent's nodes the uniform average; leaves, memo and move order are
\* those of Expectimax.
RECURSIVE Described_expectimax_search(_, _, _, _, _, _)
RECURSIVE Described_expectimax_search_loop(_, _, _, _, _, _, _, _, _)

Described_expectimax_search_loop(M, memo, board, searching, color, depth, moves, i, acc) ==
  IF i > Len(moves) THEN [M |-> M, memo |-> memo, ret |-> acc]
  ELSE The({The({Described_expectimax_search_loop(
                   v.M, v.memo, board, searching, color, depth, moves, i + 1,
                   IF color = searching THEN FracMax(acc, v.ret) ELSE FracAdd(acc, v.ret)) :
                 v \in {Described_expectimax_search(b.M, memo, b.board_copy, searching,
                                                     opponent_color(color), depth - 1)}}) :
            b \in {copy_and_play(M, board, moves[i], color)}})

Described_expectimax_search(M, memo, board, searching, color, depth) ==
  LET key == <<board_to_key(Grid(M, board)), color, depth>>
  IN IF key \in DOMAIN memo THEN [M |-> M, memo |-> memo, ret |-> memo[key]]
     ELSE IF depth = 0
     THEN Memoize([M |-> M, memo |-> memo], key,
                  FracOf(evaluate_board_using_heuristic2(M, board, color)))
     ELSE The({IF moves.ret = << >>
               THEN Memoize([M |-> moves.M, memo |-> memo], key,
                            FracOf(evaluate_board(moves.M, board, color)))
               ELSE The({Memoize(r, key,
                                 IF color = searching THEN r.ret
                                 ELSE FracDiv(r.ret, Len(moves.ret))) :
                         r \in {Described_expectimax_search_loop(
                                   moves.M, memo, board, searching, color, depth, moves.ret, 1,
                                   IF color = searching THEN FracOf(-inf) ELSE FracOf(0))}}) :
               moves \in {get_legal_moves(M, board, color)}})

RECURSIVE Described_expectimax_loop(_, _, _, _, _, _, _, _, _)
Described_expectimax_loop(M, memo, board, color, depth, moves, i, best_move, best_value) ==
  IF i > Len(moves)
  THEN [M |-> M, memo |-> memo, ret |-> [move |-> best_move, value |-> best_value]]
  ELSE The({The({Described_expectimax_loop(
                   v.M, v.memo, board, color, depth, moves, i + 1,
                   IF FracLess(best_value, v.ret) THEN moves[i] ELSE best_move,
                   IF FracLess(best_value, v.ret) THEN v.ret ELSE best_value) :
                 v \in {Described_expectimax_search(b.M, memo, b.board_copy, color,
                                                     opponent_color(color), depth - 1)}}) :
            b \in {copy_and_play(M, board, moves[i], color)}})

Described_expectimax(M, board, color, depth) ==
  The({Described_expectimax_loop(moves.M, << >>, board, color, depth, moves.ret, 1,
                                 None, FracOf(-inf)) :
       moves \in {get_legal_moves(M, board, color)}})

\* C14: in Expectimax, for either searching colour, every node at which the
\* searching colour is to move takes the maximum of its children's values
\* and every node at which the opponent is to move takes their uniform
\* average: the search returns what the search so described returns.
C14_MaxForSearcherAverageForOpponent ==
  last.op = "Expectimax.expectimax" =>
    last.ret = Described_expectimax(heap, MainId, last.color, last.depth).ret

\* the same, for the searching colour BLACK alone
C14_HoldsForBlack ==
  (last.op = "Expectimax.expectimax" /\ last.color = BLACK) =>
    last.ret = Described_expectimax(heap, MainId, last.color, last.depth).ret

\* ------------------------------------------------------- the chance node
\* _expectimax_search at a node of the averaging colour, called with an
\* empty memo on the board of a game in progress, the legal moves being
\* enumerated in row-major order (as get_legal_moves returns them) or in
\* another order.
ChanceDepth == 4        \* the depths 1..ChanceDepth of the node
MaxChanceFree == 1      \* the node is called up to this many free draws

\* White's stone on the edge can be taken by either of two Black moves
MemoOpening == << <<0, 2>>, <<1, 0>>, <<2, 0>>, <<0, 1>> >>
ChanceOpenings == {MemoOpening, CaptureOpening, QuietOpening}

Reverse(s) == [i \in 1..Len(s) |-> s[Len(s) + 1 - i]]
Rotate(s, k) == [i \in 1..Len(s) |-> s[((i - 1 + k) % Len(s)) + 1]]
Orderings(s) == {s, Reverse(s)} \cup {Rotate(s, k) : k \in 1..(Len(s) - 1)}

CallChanceNode ==
  /\ HasBoard(heap)
  /\ last.op = "play_game_step"
  /\ game.opening = << >>
  /\ game.free <= MaxChanceFree
  /\ game.current_color = WHITE
  /\ \E depth \in 1..ChanceDepth :
       \E legal \in {get_legal_moves(heap, MainId, WHITE)} :
          /\ legal.ret # << >>
          /\ \E moves \in Orderings(legal.ret) :
               \E r \in {Expectimax_expectimax_search_moves(
                            legal.M, << >>, MainId, WHITE, depth, moves)} :
                  /\ heap' = Normalize(r.M)
                  /\ last' = [op |-> "Expectimax._expectimax_search", color |-> WHITE,
                              depth |-> depth, moves |-> moves, ret |-> r.ret,
                              legal_moves |-> legal.ret]
  /\ UNCHANGED game

InitChance ==
  /\ heap = EmptyHeap
  /\ game \in {[GoGameInit EXCEPT !.opening = o] : o \in ChanceOpenings}
  /\ last = NoCall

NextChance ==
  \/ PlayGameStep
  \/ CallChanceNode

SpecChance == InitChance /\ [][NextChance]_vars

\* C15: at an Expectimax chance node with k >= 1 legal moves the value
\* returned is the same for every order in which the legal moves are
\* enumerated: the value for the order at hand is the value for the order
\* of get_legal_moves.
C15_ChanceValueOrderIndependent ==
  last.op = "Expectimax._expectimax_search" =>
    last.ret = Expectimax_expectimax_search_moves(
                 heap, << >>, MainId, last.color, last.depth, last.legal_moves).ret

\* ------------------------------------------------------ calls that are refused
\* C16: play_move and play_actual_move return false and leave the grid and
\* the capture counters unchanged whenever (x, y) is outside 0..size-1 in
\* either coordinate or the cell is occupied.
C16_InvalidCallRejected ==
  \A p \in Inputs(N), color \in Colors :
    (p \notin Coord(N) \/ At(MainGrid, p) # None) =>
      /\ \A r \in {play_move(heap, MainId, p[1], p[2], color)} :
            ~r.ret /\ View(r.M, MainId) = View(heap, MainId)
      /\ \A r \in {play_actual_move(heap, MainId, p[1], p[2], color)} :
            ~r.ret /\ View(r.M, MainId) = View(heap, MainId)

\* a call has just returned at its first check, on a board with stones of
\* both colours and a stone taken
C16_Witness ==
  /\ last.op \in Moves /\ last.path = "invalid" /\ ~last.ret
  /\ \A c \in Colors : \E p \in Coord(N) : At(MainGrid, p) = c
  /\ \E c \in Colors : heap.objs[MainId].captured[c] > 0

\* ------------------------------------------------- captures come first
\* C17: a placement on an empty cell that leaves at least one adjacent
\* opposing group without liberties is accepted by play_move, also when the
\* placed stone has no empty neighbour at the placement: the groups are
\* taken first, and after the call the group of the placed stone has a
\* liberty.
C17_CaptureBeforeSuicide ==
  \A p \in Coord(N), color \in Colors :
    (At(MainGrid, p) = None /\ DeadAround(N, MainGrid, p, color) # {}) =>
      \A r \in {play_move(heap, MainId, p[1], p[2], color)} :
        /\ r.ret
        /\ At(Grid(r.M, MainId), p) = color
        /\ \A q \in DeadAround(N, MainGrid, p, color) : At(Grid(r.M, MainId), q) = None
        /\ LibertiesOf(N, Grid(r.M, MainId), GroupOf(N, Grid(r.M, MainId), p)) # {}

\* White's stone on the corner (0,0), whose neighbours (0,1) and (1,0) both
\* held Black stones, has just taken the one on (0,1): the only Black stone
\* ever taken on this board
C17_Witness ==
  /\ last = [op |-> "play_move", on |-> MainId, x |-> 0, y |-> 0, color |-> WHITE,
             ret |-> TRUE, path |-> "capture"]
  /\ MainGrid = << <<WHITE, None, WHITE>>, <<BLACK, WHITE, None>>, <<None, None, None>> >>
  /\ heap.objs[MainId].captured = [c \in Colors |-> IF c = BLACK THEN 1 ELSE 0]

\* ------------------------------------------------- the list of legal moves
\* A board of the size the program is started with, GoBoard(5, set()): stones
\* are placed by play_move, which leaves the history empty, and the legal
\* moves of a colour are listed.
MainSize == 5           \* size = 5
MaxLegalStones == 2     \* stones a run places on the board

InitLegal ==
  /\ heap = GoBoardInit(EmptyHeap, MainId, MainId, MainSize, SetId)
  /\ game = NoGame
  /\ last = NoCall

PlayMoveLegal ==
  /\ Placed(heap, MainId) < MaxLegalStones
  /\ \E p \in Coord(MainSize), color \in Colors :
       \E r \in {play_move(heap, MainId, p[1], p[2], color)} :
          /\ heap' = Normalize(r.M)
          /\ last' = Call("play_move", MainId, p, color, r.ret, r.path)
  /\ UNCHANGED game

GetLegalMoves ==
  /\ \E color \in Colors :
       \E r \in {get_legal_moves(heap, MainId, color)} :
          /\ heap' = Normalize(r.M)
          /\ last' = [op |-> "get_legal_moves", color |-> color, ret |-> r.ret]
  /\ UNCHANGED game

NextLegal ==
  \/ PlayMoveLegal
  \/ GetLegalMoves

SpecLegal == InitLegal /\ [][NextLegal]_vars

\* C18: get_legal_moves(c) returns exactly the empty cells of the board for
\* which is_legal_move holds, in row-major order and each once; after one
\* accepted stone on an otherwise empty 5x5 board with an empty history the
\* list of the opponent has 24 entries, every cell but the stone's.
C18_LegalMovesListed ==
  \A color \in Colors :
    LET size == heap.objs[MainId].size
        listed == get_legal_moves(heap, MainId, color).ret
        IsLegal(p) == /\ At(MainGrid, p) = None
                      /\ is_legal_move(heap, MainId, p[1], p[2], color).ret
    IN /\ listed = SelectSeq(RowMajor(size), IsLegal)
       /\ (/\ Placed(heap, MainId) = 1
           /\ \E p \in Coord(size) : At(MainGrid, p) = opponent_color(color)
           /\ PreviousBoards(heap, MainId) = {}) =>
            Len(listed) = size * size - 1

\* the 24 legal moves of White have just been listed, Black's single stone
\* being on the corner (0,0)
C18_Witness ==
  /\ last.op = "get_legal_moves" /\ last.color = WHITE
  /\ Len(last.ret) = MainSize * MainSize - 1
  /\ At(MainGrid, <<0, 0>>) = BLACK
  /\ Placed(heap, MainId) = 1

\* ------------------------------------------------------------ the ko rule
\* the move would be accepted by play_move and would leave a grid that is in
\* previous_boards
Recreates(M, p, color) ==
  \E r \in {PlayedOnClone(M, MainId, p, color)} :
    r.ret /\ r.board \in PreviousBoards(M, MainId)

\* the return statements of is_legal_move that belong to the ko rule: the
\* two tests of previous_boards and the test of last_captured
KoPaths == {"ko", "ko_after_capture", "last_captured"}

\* a step of the driver in which a move other than p has been accepted
OtherMoveAccepted(p) ==
  /\ HasBoard(heap) /\ HasBoard(heap')
  /\ last'.op = "play_game_step" /\ last'.path = "moved" /\ last'.move # p

\* C19: ko release: a move that would recreate a previously seen board and
\* is rejected by is_legal_move for it is no longer rejected by the ko rule
\* once a different move has been accepted.
C19_KoReleased ==
  [][\A p \in Coord(N), color \in Colors :
       (/\ OtherMoveAccepted(p)
        /\ Recreates(heap, p, color)
        /\ ~is_legal_move(heap, MainId, p[1], p[2], color).ret) =>
         is_legal_move(heap', MainId, p[1], p[2], color).path \notin KoPaths]_vars

\* -------------------------------------------------- the counter of a capture
\* C20: when the counters are 0 and 0 and Black fills the last liberty of a
\* single White stone whose other neighbours are all Black, play_move takes
\* the stone off the board and captured['BLACK'] becomes 1.
C20_CaptureCountedForBlack ==
  \A p \in Coord(N), q \in Coord(N) :
    (/\ heap.objs[MainId].captured = [c \in Colors |-> 0]
     /\ At(MainGrid, p) = None
     /\ At(MainGrid, q) = WHITE
     /\ DeadAround(N, MainGrid, p, BLACK) = {q}) =>
      \A r \in {play_move(heap, MainId, p[1], p[2], BLACK)} :
        /\ r.ret
        /\ At(Grid(r.M, MainId), q) = None
        /\ r.M.objs[MainId].captured[BLACK] = 1

\* ------------------------------------------------------ the two heuristics
\* the stones of a colour on the first or last row or column
BorderStones(size, board, color) ==
  {p \in Coord(size) : /\ At(board, p) = color
                       /\ (p[1] = 0 \/ p[1] = size - 1 \/ p[2] = 0 \/ p[2] = size - 1)}

\* C21: for every board and colour c, evaluate_board_using_heuristic(c) is
\* 1*stone_count + 5*controlled_territory + 3*get_captures
\* + 2*potential_liberties + 4*corner_and_edge_control,
\* evaluate_board_using_heuristic2(c) is the sum without the last term, and
\* their difference is 4 times the number of c stones on the border.
C21_HeuristicsAreWeightedSums ==
  \A c \in Colors :
    \A four \in {stone_count(heap, MainId, c) + 5 * controlled_territory(heap, MainId, c)
                  + 3 * get_captures(heap, MainId, c)
                  + 2 * potential_liberties(heap, MainId, c)},
       h \in {evaluate_board_using_heuristic(heap, MainId, c)},
       h2 \in {evaluate_board_using_heuristic2(heap, MainId, c)} :
      /\ h = four + 4 * corner_and_edge_control(heap, MainId, c)
      /\ h2 = four
      /\ h - h2 = 4 * Cardinality(BorderStones(N, MainGrid, c))

\* Black holds the centre and stones on the border and has taken a stone
C21_Witness ==
  /\ At(MainGrid, <<1, 1>>) = BLACK
  /\ heap.objs[MainId].captured[WHITE] > 0
  /\ stone_count(heap, MainId, BLACK) > 2
  /\ evaluate_board_using_heuristic(heap, MainId, BLACK)
       - evaluate_board_using_heuristic2(heap, MainId, BLACK)
       = 4 * (stone_count(heap, MainId, BLACK) - 1)

\* ------------------------------------------------------ the end of a game
\* C22: the driver ends a game only after two consecutive passes or when
\* both colours have no legal move: a step in which the strategy of the
\* side to move returns None while the other colour has a legal move does
\* not end the game (no result is recorded, the game is not counted and the
\* board is kept).
C22_OnePassDoesNotEndGame ==
  [][(/\ HasBoard(heap)
      /\ last'.op = "play_game_step" /\ last'.path = "no_move"
      /\ get_legal_moves(heap, MainId, opponent_color(game.current_color)).ret # << >>) =>
       /\ game'.results = game.results
       /\ game'.current_game = game.current_game
       /\ ~game'.finished
       /\ HasBoard(heap')]_vars

\* the flags of a result record: black_wins, white_wins, tie
Flags(result) ==
  <<IF result[BLACK] > result[WHITE] THEN 1 ELSE 0,
    IF result[WHITE] > result[BLACK] THEN 1 ELSE 0,
    IF result[WHITE] = result[BLACK] THEN 1 ELSE 0>>

\* C23: when the driver reaches finished = true it has created exactly
\* num_games boards and appended exactly num_games result records, each
\* with exactly one of black_wins, white_wins and tie equal to 1, whichever
\* way the games have ended.
C23_OneBoardAndResultPerGame ==
  game.finished =>
    /\ game.boards_created = NumGames
    /\ Len(game.results) = NumGames
    /\ \A i \in 1..Len(game.results) :
         Flags(game.results[i])[1] + Flags(game.results[i])[2] + Flags(game.results[i])[3] = 1

\* --------------------------------------------------- a move that is refused
\* The driver with Black's strategy "random" (the games of SpecGame) or
\* "expectimax", White's being "random".
InitGameAI ==
  /\ heap = EmptyHeap
  /\ game \in {[GoGameInit EXCEPT !.opening = o] : o \in Openings}
             \cup {[GoGameInit EXCEPT !.black_strategy = "expectimax"]}
  /\ last = NoCall

NextGameAI == PlayGameStep

SpecGameAI == InitGameAI /\ [][NextGameAI]_vars

\* C24: when the driver's play_actual_move returns false the turn is not
\* advanced: current_color is unchanged, nothing is added to
\* previous_boards, and the grid and the capture counters of the board are
\* unchanged by the step.
C24_RefusedMoveKeepsTurn ==
  [][(last'.op = "play_game_step" /\ last'.path = "refused") =>
       /\ game'.current_color = game.current_color
       /\ PreviousBoards(heap', MainId) = PreviousBoards(heap, MainId)
       /\ Grid(heap', MainId) = Grid(heap, MainId)
       /\ heap'.objs[MainId].captured = heap.objs[MainId].captured]_vars

\* Black's strategy has returned (3, 0) on the first turn of a game on the
\* 3x3 board and play_actual_move has refused it
C24_Witness ==
  /\ last.op = "play_game_step" /\ last.path = "refused" /\ last.move = <<3, 0>>
  /\ game.black_strategy = "expectimax" /\ ~game.first_turn
  /\ game.current_color = BLACK
  /\ PreviousBoards(heap, MainId) = {}

\* ------------------------------------------------------- the greedy agent
\* the states of the generator: random.choice may return any element
RngStates == {NextRng(rng) : rng \in 0..15}

\* the heuristic of the board once the move is played on it
ScoreAfter(M, m, color) ==
  evaluate_board_using_heuristic2(play_move(M, MainId, m[1], m[2], color).M, MainId, color)

\* the legal moves after which the heuristic is the maximum over the legal
\* moves
BestMoves(M, color) ==
  LET legal == Range(get_legal_moves(M, MainId, color).ret)
      score == [m \in legal |-> ScoreAfter(M, m, color)]
  IN {m \in legal : \A k \in legal : score[k] <= score[m]}

\* C25: GreedyAgent.getAction on a board with a legal move returns a legal
\* move after which evaluate_board_using_heuristic2 of the agent's colour
\* is the maximum over the legal moves; every legal move that attains the
\* maximum is a possible return value, and no other move is.
C25_GreedyReturnsAnyBestMove ==
  (last.op = "GreedyAgent.getAction" /\ last.legal_moves # << >>) =>
    \A best \in {BestMoves(heap, last.color)} :
      /\ last.ret.move \in best
      /\ {GreedyAgent_getAction(heap, MainId, last.color, rng).ret : rng \in RngStates}
           = best

\* the agent has returned the second of several best moves, on a board
\* where a stone has been taken and some legal move is not a best one
C25_Witness ==
  /\ last.op = "GreedyAgent.getAction" /\ last.rng = 1
  /\ Cardinality(BestMoves(heap, last.color)) > 1
  /\ BestMoves(heap, last.color) # Range(last.legal_moves)
  /\ last.ret.move \in BestMoves(heap, last.color)
  /\ \E c \in Colors : heap.objs[MainId].captured[c] > 0

\* ------------------------------------------------- MCTS without iterations
\* C26: MCTS.mcts_search with 0 iterations returns None for every root
\* board, boards on which the colour to move has legal moves included: the
\* root has no children.
C26_NoIterationsNoMove ==
  (last.op = "MCTS.mcts_search" /\ last.iterations = 0) => last.ret.move = None

\* the search has run without iterations for a colour that has legal moves
C26_Witness ==
  /\ last.op = "MCTS.mcts_search" /\ last.iterations = 0
  /\ last.legal_moves # << >>
  /\ last.ret.move = None

\* ------------------------------------------------- the training driver
\* GoGameTrainingQLearning.  prev_black_board and prev_white_board are held
\* by their grids: they are results of copy(), whose counters are those of
\* __init__ and whose previous_boards is the driver's set, and nothing
\* plays on them.  decay_calls counts the decay_exploration_rate calls made
\* on each agent; opening, free, history and boards_created are as in
\* GoGame.
TrainingInit ==
  [driver |-> "training", current_color |-> BLACK, game_over |-> FALSE,
   finished |-> FALSE, current_game |-> 0, results |-> << >>, first_turn |-> TRUE,
   qlearn_agent_black |-> QLearningInit, qlearn_agent_white |-> QLearningInit,
   prev_black_board |-> None, prev_white_board |-> None,
   decay_calls |-> [c \in Colors |-> 0],
   opening |-> << >>, free |-> 0, history |-> << >>, boards_created |-> 0]

\* the instance a held copy is
HeldCopy(M, board) ==
  LET id == NewId(M)
      ref == NewRef(M)
  IN [M |-> [GoBoardInit(M, id, ref, Len(board), SetId) EXCEPT !.store[ref] = board],
      ret |-> id]

Training_reset_game(M, g) ==
  [M |-> [M EXCEPT !.objs = [i \in DOMAIN M.objs \ {MainId} |-> M.objs[i]],
                   !.sets[SetId] = {}],
   game |-> [g EXCEPT !.first_turn = TRUE, !.current_color = BLACK, !.game_over = FALSE,
                      !.free = 0, !.history = << >>]]

\* "Decrease the exploration rate at the end of every game"
Training_decay(g) ==
  [g EXCEPT !.qlearn_agent_black = decay_exploration_rate(@),
            !.qlearn_agent_white = decay_exploration_rate(@),
            !.decay_calls = [c \in Colors |-> @[c] + 1]]

Training_end_game(M, g) ==
  LET g1 == IF HasBoard(M) /\ g.current_game < NumGames
            THEN Training_decay([g EXCEPT !.results = Append(@, count_score(M, MainId))])
            ELSE g
  IN IF g1.current_game < NumGames
     THEN Training_reset_game(M, [g1 EXCEPT !.current_game = @ + 1])
     ELSE [M |-> M, game |-> [g1 EXCEPT !.finished = TRUE]]

\* the step when choose_action has returned None
Training_play_game_step_none(M, g) ==
  LET g1 == [Training_decay([g EXCEPT !.results = Append(@, count_score(M, MainId))])
               EXCEPT !.current_game = @ + 1]
      e == IF g1.current_game >= NumGames
           THEN LET f == Training_end_game(M, g1)
                IN [M |-> f.M, game |-> [f.game EXCEPT !.finished = TRUE]]
           ELSE Training_reset_game(M, g1)
  IN [M |-> e.M, game |-> e.game, path |-> "no_move", move |-> None,
      key |-> None, chosen_on |-> Grid(M, MainId)]

\* "Update the values in the Q-table": the block of the colour that moved
Training_update(M, g, move) ==
  LET color == g.current_color
      agent == IF color = BLACK THEN g.qlearn_agent_black ELSE g.qlearn_agent_white
      prev_board == IF color = BLACK THEN g.prev_black_board ELSE g.prev_white_board
  IN The({The({The({The({
       LET g1 == IF color = BLACK
                 THEN [g EXCEPT !.qlearn_agent_black = u.agent,
                                !.prev_black_board = Grid(M, MainId),
                                !.prev_white_board =
                                   IF g.first_turn THEN Grid(M, MainId) ELSE @,
                                !.first_turn = FALSE]
                 ELSE [g EXCEPT !.qlearn_agent_white = u.agent,
                                !.prev_white_board = Grid(M, MainId)]
       IN [M |-> u.M, game |-> g1, key |-> <<get_state(prev_board), move>>] :
       u \in {update_q_values(prev.M, agent, prev.ret, color, move, reward.ret,
                              curr_board.ret)}}) :
       prev \in {HeldCopy(curr_board.M, prev_board)}}) :
       curr_board \in {copy(reward.M, MainId)}}) :
       reward \in {get_reward(M, MainId, color)}})

\* the step after choose_action has returned `move`, chosen on `board`
Training_play_game_step_move(M, g, move, board) ==
  LET drawn == [g EXCEPT !.opening = IF @ = << >> THEN @ ELSE Tail(@),
                         !.free = IF g.opening = << >> THEN @ + 1 ELSE @]
  IN The({IF r.ret
          THEN The({The({[M |-> over.M,
                          game |-> [u.game EXCEPT
                                      !.current_color = opponent_color(@),
                                      !.history = Append(@, AsTuple(Grid(u.M, MainId))),
                                      !.game_over = @ \/ over.ret],
                          path |-> "moved", move |-> move, key |-> u.key,
                          chosen_on |-> board] :
                         over \in {is_game_over(
                                     [u.M EXCEPT !.sets[SetId] =
                                                   @ \cup {AsTuple(Grid(u.M, MainId))}])}}) :
                    u \in {Training_update(r.M, drawn, move)}})
          ELSE The({[M |-> over.M, game |-> [drawn EXCEPT !.game_over = @ \/ over.ret],
                     path |-> "refused", move |-> move, key |-> None,
                     chosen_on |-> board] :
                    over \in {is_game_over(r.M)}}) :
          r \in {play_actual_move(M, MainId, move[1], move[2], g.current_color)}})

\* the values np.random.rand() < exploration_rate may take: rand() is in [0, 1)
Explores(agent) ==
  {b \in BOOLEAN : IF b THEN FracLess(FracOf(0), agent.exploration_rate)
                   ELSE FracLess(agent.exploration_rate, FracOf(1))}

\* the moves choose_action may return on the driver's board: any legal move
\* when it explores, any of the best moves when it does not, None when
\* there is no legal move
Training_choose_action(M, g) ==
  LET agent == IF g.current_color = BLACK THEN g.qlearn_agent_black
               ELSE g.qlearn_agent_white
  IN UNION {IF legal_moves.ret = << >> THEN {None}
            ELSE UNION {IF explore THEN Draws(g, legal_moves.ret)
                        ELSE Draws(g, choose_action_best_moves(
                                        legal_moves.M, agent.q_table, MainId,
                                        legal_moves.ret).ret) :
                        explore \in Explores(agent)} :
            legal_moves \in {get_legal_moves(M, MainId, g.current_color)}}

\* play_game_step of the training driver: the outcomes of one step
Training_play_game_step(M, g) ==
  IF g.finished
  THEN {[M |-> M, game |-> g, path |-> "finished", move |-> None, key |-> None,
         chosen_on |-> None]}
  ELSE IF g.game_over
  THEN LET e == Training_end_game(M, g)
       IN {[M |-> e.M, game |-> e.game, path |-> "game_over", move |-> None,
            key |-> None, chosen_on |-> None]}
  ELSE IF ~HasBoard(M)
  THEN {[M |-> GoBoardInit(M, MainId, MainId, N, SetId),
         game |-> [g EXCEPT !.current_color = BLACK, !.boards_created = @ + 1,
                            !.prev_black_board = EmptyGrid(N),
                            !.prev_white_board = EmptyGrid(N)],
         path |-> "new_board", move |-> None, key |-> None, chosen_on |-> None]}
  ELSE {IF move = None THEN Training_play_game_step_none(M, g)
        ELSE Training_play_game_step_move(M, g, move, Grid(M, MainId)) :
        move \in Training_choose_action(M, g)}

\* a QLearning instance by itself, for decay_exploration_rate: the rate it
\* starts with is not below its floor, and the decay is at most 1
DecayRates == {FracOf(1), Frac(1, 2), Frac(1, 4), Frac(1, 10)}
DecayFactors == {FracOf(1), Frac(9, 10), Frac(3, 4), Frac(1, 2)}
DecayFloors == {Frac(1, 10), Frac(1, 4), Frac(1, 100)}
MaxDecays == 4

Agents ==
  {a \in {[driver |-> "agent", calls |-> 0,
           agent |-> [QLearningInit EXCEPT !.exploration_rate = rate,
                                           !.exploration_decay = decay,
                                           !.min_exploration_rate = floor]] :
          rate \in DecayRates, decay \in DecayFactors, floor \in DecayFloors} :
     ~FracLess(a.agent.exploration_rate, a.agent.min_exploration_rate)}

InitTraining ==
  /\ heap = EmptyHeap
  /\ game \in {[TrainingInit EXCEPT !.opening = o] : o \in Openings} \cup Agents
  /\ last = NoCall

TrainingStep ==
  /\ game.driver = "training"
  /\ \E r \in Training_play_game_step(heap, game) :
       /\ heap' = Normalize(r.M)
       /\ game' = r.game
       /\ last' = [op |-> "play_game_step", path |-> r.path, move |-> r.move,
                   key |-> r.key, chosen_on |-> r.chosen_on]

DecayExplorationRate ==
  /\ game.driver = "agent"
  /\ game.calls < MaxDecays
  /\ game' = [game EXCEPT !.agent = decay_exploration_rate(@), !.calls = @ + 1]
  /\ last' = [op |-> "decay_exploration_rate"]
  /\ UNCHANGED heap

NextTraining ==
  \/ TrainingStep
  \/ DecayExplorationRate

SpecTraining == InitTraining /\ [][NextTraining]_vars

\* --------------------------------------------------------- the Q tables
AgentOf(g, color) ==
  IF color = BLACK THEN g.qlearn_agent_black ELSE g.qlearn_agent_white

PrevBoardOf(g, color) ==
  IF color = BLACK THEN g.prev_black_board ELSE g.prev_white_board

\* C27: the Q-table grows monotonically.  update_q_values writes exactly
\* one entry, keyed (get_state(board), action) of the board and action it is
\* called with, and leaves every other entry as it was; get_q_value and
\* choose_action add, change and remove nothing; so over the calls of a
\* training run the key set of a table never shrinks.
C27_QTableGrows ==
  [][game.driver = "training" =>
       \A c \in Colors :
         \A old \in {AgentOf(game, c).q_table}, new \in {AgentOf(game', c).q_table} :
           /\ DOMAIN old \subseteq DOMAIN new
           /\ IF last'.path = "moved" /\ c = game.current_color
              THEN \A key \in {<<get_state(PrevBoardOf(game, c)), last'.move>>} :
                     /\ DOMAIN new = DOMAIN old \cup {key}
                     /\ \A k \in DOMAIN old \ {key} : new[k] = old[k]
              ELSE new = old]_vars

\* in the second game of a run Black's first move has been played and its
\* entry, which the first game had written, written again: Black's table
\* has the eight keys of the first game
C27_Witness ==
  /\ game.driver = "training" /\ game.current_game = 1
  /\ last.op = "play_game_step" /\ last.path = "moved"
  /\ Len(game.history) = 1
  /\ last.key \in DOMAIN game.qlearn_agent_black.q_table
  /\ Cardinality(DOMAIN game.qlearn_agent_black.q_table) = 8
  /\ Cardinality(DOMAIN game.qlearn_agent_white.q_table) = 8

\* ------------------------------------------------------ exploration rate
\* the QLearning instances of a state
AgentsOf(g) ==
  IF g.driver = "agent" THEN <<g.agent>>
  ELSE <<g.qlearn_agent_black, g.qlearn_agent_white>>

\* C28: from exploration_rate >= min_exploration_rate on, after any number
\* of decay_exploration_rate calls the rate is never below the floor and
\* never increases, and once it equals the floor it stays there; in the
\* training driver the rate of each agent is decayed exactly once for each
\* game for which a result record is appended.
C28_RateDecaysToFloor ==
  [][/\ \A i \in DOMAIN AgentsOf(game) :
          \A old \in {AgentsOf(game)[i]}, new \in {AgentsOf(game')[i]} :
            /\ ~FracLess(new.exploration_rate, new.min_exploration_rate)
            /\ ~FracLess(old.exploration_rate, new.exploration_rate)
            /\ old.exploration_rate = old.min_exploration_rate
                 => new.exploration_rate = new.min_exploration_rate
     /\ game.driver = "training" =>
          \A c \in Colors :
            /\ game'.decay_calls[c] = Len(game'.results)
            /\ game'.decay_calls[c] - game.decay_calls[c] \in {0, 1}
            /\ AgentOf(game', c).exploration_rate
                 = IF Len(game'.results) = Len(game.results)
                   THEN AgentOf(game, c).exploration_rate
                   ELSE decay_exploration_rate(AgentOf(game, c)).exploration_rate]_vars

\* an instance that started above its floor has reached it with a call
\* before the last one
C28_Witness ==
  /\ game.driver = "agent" /\ game.calls = MaxDecays
  /\ last.op = "decay_exploration_rate"
  /\ game.agent.exploration_decay = Frac(1, 2)
  /\ game.agent.min_exploration_rate = Frac(1, 10)
  /\ game.agent.exploration_rate = game.agent.min_exploration_rate

\* ------------------------------------------------- Minimax without its memo
\* The recursion of Minimax._minimax_search and Minimax.minimax with the
\* memo disabled: no lookup, every node computed on the board that reached
\* it.  `view` is the colour the leaves and the nodes without a legal move
\* are evaluated for; with None it is the colour to move at the node, as in
\* the code.
RECURSIVE Unmemoized_minimax_search(_, _, _, _, _, _)
RECURSIVE Unmemoized_minimax_search_loop(_, _, _, _, _, _, _, _, _)

Unmemoized_minimax_search_loop(M, board, color, depth, maximizing, view, moves, i, best_value) ==
  IF i > Len(moves) THEN [M |-> M, ret |-> best_value]
  ELSE The({The({Unmemoized_minimax_search_loop(
                   v.M, board, color, depth, maximizing, view, moves, i + 1,
                   IF maximizing THEN max(best_value, v.ret) ELSE min(best_value, v.ret)) :
                 v \in {Unmemoized_minimax_search(b.M, b.board_copy, opponent_color(color),
                                                  depth - 1, ~maximizing, view)}}) :
            b \in {copy_and_play(M, board, moves[i], color)}})

Unmemoized_minimax_search(M, board, color, depth, maximizing, view) ==
  LET evaluated == IF view = None THEN color ELSE view
  IN IF depth = 0 THEN [M |-> M, ret |-> evaluate_board(M, board, evaluated)]
     ELSE The({IF moves.ret = << >>
               THEN [M |-> moves.M, ret |-> evaluate_board(moves.M, board, evaluated)]
               ELSE Unmemoized_minimax_search_loop(
                      moves.M, board, color, depth, maximizing, view, moves.ret, 1,
                      IF maximizing THEN -inf ELSE inf) :
               moves \in {get_legal_moves(M, board, color)}})

RECURSIVE Unmemoized_minimax_loop(_, _, _, _, _, _, _, _, _)
Unmemoized_minimax_loop(M, board, color, depth, view, moves, i, best_move, best_value) ==
  IF i > Len(moves) THEN [move |-> best_move, value |-> best_value]
  ELSE The({The({Unmemoized_minimax_loop(
                   v.M, board, color, depth, view, moves, i + 1,
                   IF v.ret > best_value THEN moves[i] ELSE best_move,
                   IF v.ret > best_value THEN v.ret ELSE best_value) :
                 v \in {Unmemoized_minimax_search(b.M, b.board_copy, opponent_color(color),
                                                  depth - 1, FALSE, view)}}) :
            b \in {copy_and_play(M, board, moves[i], color)}})

Unmemoized_minimax(M, board, color, depth, view) ==
  The({Unmemoized_minimax_loop(moves.M, board, color, depth, view, moves.ret, 1,
                               None, -inf) :
       moves \in {get_legal_moves(M, board, color)}})

\* C29: memoization is sound within one Minimax search: for every root
\* board, colour and depth, Minimax.minimax with its (grid serialization,
\* colour, depth) memo returns the value and the best move that the same
\* recursion returns with the memo disabled.
C29_MemoSound ==
  (last.op = "Minimax.minimax" /\ last.leaf = "evaluate_board") =>
    last.ret = Unmemoized_minimax(heap, MainId, last.color, last.depth, None)

\* C30: Minimax evaluates from the root mover's perspective: for root
\* colour c and every depth D >= 1, odd or even, every depth-0 leaf value
\* and every value of a node without a legal move that enters the
\* alternating max/min recursion is evaluate_board(c) of that position, so
\* the returned value is the depth-D minimax value of the root mover's
\* evaluation.
C30_RootMoversPerspective ==
  (last.op = "Minimax.minimax" /\ last.leaf = "evaluate_board") =>
    last.ret.value
      = Unmemoized_minimax(heap, MainId, last.color, last.depth, last.color).value

\* ---------------------------------------------------- a search in progress
\* mcts_search on the board of a game in progress, one pass of its for loop
\* at a time.  While the search runs, game is the MCTS object with the local
\* variables of mcts_search (the tree, the passes made) and the driver that
\* called it; the driver goes on when the search has returned.
MctsSteps == 6          \* mcts_iterations of a search in progress

\* one pass of the for loop of mcts_search: the node selected, the tree once
\* it is selected, the playout and its reward, and the tree at the end
MCTS_iteration(M, agent_white, tree, weight, rng) ==
  The({The({[M |-> reward.M, rng |-> reward.rng, node |-> node.ret,
             selected |-> node.tree, playout |-> reward,
             tree |-> MCTS_backpropagate(node.tree, node.ret, reward.ret)] :
            reward \in {MCTS_simulate_with(node.M, agent_white, node.tree, node.ret, rng)}}) :
       node \in {MCTS_select(M, tree, 1, weight)}})

\* Object identities are not observable: after a pass the boards of the
\* nodes are kept, node k's as object k (the root's is the caller's board),
\* and the board of the playout as the object after them.
MCTS_held(M, tree, board_copy) ==
  LET ids == [k \in 1..(Len(tree) + 1) |->
                IF k <= Len(tree) THEN tree[k].board ELSE board_copy]
  IN [M |-> [sets |-> (SetId :> M.sets[SetId]),
             objs |-> [k \in DOMAIN ids |-> [M.objs[ids[k]] EXCEPT !.board = k]],
             store |-> [k \in DOMAIN ids |-> Grid(M, ids[k])]],
      tree |-> [k \in 1..Len(tree) |-> [tree[k] EXCEPT !.board = k]]]

\* the boards of the nodes alone, as a pass finds them
MCTS_boards(M, tree) ==
  [sets |-> M.sets,
   objs |-> [k \in 1..Len(tree) |-> M.objs[k]],
   store |-> [k \in 1..Len(tree) |-> M.store[k]]]

InSearch == "driver" \in DOMAIN game /\ game.driver = "MCTS"
PlayoutId == Len(game.tree) + 1

\* the driver, between two searches
MCTSPlayGameStep ==
  /\ ~InSearch
  /\ PlayGameStep

\* mcts = MCTS(board, color, agent_white, mcts_iterations, exploration_weight)
\* and the first line of mcts_search: the root
MCTSStart ==
  /\ ~InSearch
  /\ CanCall
  /\ game.free = 0
  /\ \E rng \in 0..MaxSeed, mcts_iterations \in 0..MctsSteps, agent_white \in RolloutAgents :
       /\ game' = [driver |-> "MCTS", caller |-> game, color |-> game.current_color,
                   agent_white |-> agent_white, iterations |-> mcts_iterations,
                   exploration_weight |-> ExplorationWeight,
                   tree |-> <<MCTSNode(MainId, game.current_color, None, 0)>>,
                   passes |-> 0, seed |-> rng, rng |-> rng]
       /\ last' = [op |-> "MCTS", board |-> View(heap, MainId)]
  /\ UNCHANGED heap

\* one pass of the for loop
MCTSIterate ==
  /\ InSearch
  /\ game.passes < game.iterations
  /\ \E r \in {MCTS_iteration(MCTS_boards(heap, game.tree), game.agent_white, game.tree,
                              game.exploration_weight, game.rng)} :
       \E held \in {MCTS_held(r.M, r.tree, r.playout.board_copy)} :
          /\ heap' = held.M
          /\ game' = [game EXCEPT !.tree = held.tree, !.passes = @ + 1, !.rng = r.rng]
          /\ last' = [op |-> "MCTS.iteration", node |-> r.node, reward |-> r.playout.ret,
                      before |-> game.tree,
                      added |-> Len(r.selected) - Len(game.tree),
                      legal_moves |-> [k \in 1..Len(game.tree) |->
                                         get_legal_moves(heap, k, game.tree[k].color).ret],
                      playout |-> [board_copy |-> r.playout.board_copy,
                                   held |-> {r.selected[k].board : k \in 1..Len(r.selected)},
                                   i |-> r.playout.i, done |-> r.playout.done,
                                   current_color |-> r.playout.current_color]]

\* the last lines of mcts_search: the move of the child that best_child(0)
\* names
MCTSReturn ==
  /\ InSearch
  /\ game.passes = game.iterations
  /\ LET best_node == best_child(game.tree, 1, <<0, 1>>)
     IN last' = [op |-> "MCTS.mcts_search", color |-> game.color,
                 iterations |-> game.iterations, tree |-> game.tree,
                 legal_moves |-> get_legal_moves(heap, MainId, game.color).ret,
                 ret |-> [move |-> IF best_node # 0 THEN game.tree[best_node].move
                                   ELSE None]]
  /\ game' = game.caller
  /\ heap' = MCTS_boards(heap, <<game.tree[1]>>)

\* the openings of the strategies, and two that leave little to play: after
\* the first White has one move left and Black none after it; after the
\* second White has three moves, and Black none after two of them
OneMoveLeft == SubSeq(LongGame, 1, 15)
ThreeMovesLeft == SubSeq(LongGame, 1, 11)
MctsOpenings == SearchOpenings \cup {OneMoveLeft, ThreeMovesLeft}

InitMCTS ==
  /\ heap = EmptyHeap
  /\ game \in {[GoGameInit EXCEPT !.opening = o] : o \in MctsOpenings}
  /\ last = NoCall

NextMCTS ==
  \/ MCTSPlayGameStep
  \/ MCTSStart
  \/ MCTSIterate
  \/ MCTSReturn

SpecMCTS == InitMCTS /\ [][NextMCTS]_vars

\* the node k and its ancestors, the root included
RECURSIVE Ancestors(_, _)
Ancestors(tree, k) == IF k = 0 THEN {} ELSE {k} \cup Ancestors(tree, tree[k].parent)

\* visits and value of node k before the pass: a node the pass adds starts
\* with 0 and 0
Counted(before, k) ==
  IF k <= Len(before) THEN [visits |-> before[k].visits, value |-> before[k].value]
  ELSE [visits |-> 0, value |-> 0]

\* C31: each backpropagation adds 1 to visits and the same reward to value
\* at the simulated node and at each of its ancestors, the root included,
\* and changes the visits and the value of no other node; after k passes
\* the visits of the root are k.
C31_BackpropagationCountsThePath ==
  /\ InSearch => game.tree[1].visits = game.passes
  /\ (InSearch /\ last.op = "MCTS.iteration") =>
       \A k \in 1..Len(game.tree) :
          IF k \in Ancestors(game.tree, last.node)
          THEN /\ game.tree[k].visits = Counted(last.before, k).visits + 1
               /\ game.tree[k].value = Counted(last.before, k).value + last.reward
          ELSE /\ game.tree[k].visits = Counted(last.before, k).visits
               /\ game.tree[k].value = Counted(last.before, k).value

\* a pass whose node lies two levels below the root, with a reward that is
\* not 0, in a tree that has nodes off the path
C31_Witness ==
  /\ InSearch
  /\ last.op = "MCTS.iteration"
  /\ last.reward # 0
  /\ Cardinality(Ancestors(game.tree, last.node)) >= 3
  /\ Len(game.tree) > 4
  /\ game.tree[1].visits = game.passes

\* the grid once a stone of `color` stands on p and the opposing groups it
\* leaves without a liberty are taken off
AfterMove(size, board, p, color) ==
  LET placed == WithStone(board, p, color)
      dead == DeadAround(size, board, p, color)
  IN [x \in 1..size |-> [y \in 1..size |->
        IF <<x - 1, y - 1>> \in dead THEN None ELSE placed[x][y]]]

\* what a pass of the search does to the tree and to the boards it holds
C32_Pass ==
  (InSearch /\ InSearch') =>
    LET before == game.tree
        after == game'.tree
        n == Len(after)
    IN /\ Len(after) - Len(before) \in {0, 1}
       /\ \A k \in 1..Len(before) :
            /\ k <= Len(after)
            /\ after[k].board = before[k].board
            /\ after[k].color = before[k].color
            /\ after[k].move = before[k].move
            /\ after[k].parent = before[k].parent
            /\ View(heap', after[k].board) = View(heap, before[k].board)
            /\ Len(after[k].children) >= Len(before[k].children)
            /\ SubSeq(after[k].children, 1, Len(before[k].children)) = before[k].children
            /\ Len(after[k].children) - Len(before[k].children)
                 = IF n > Len(before) /\ after[n].parent = k THEN 1 ELSE 0
       /\ n > Len(before) =>
            LET p == after[n].parent
                move == after[n].move
            IN /\ p \in 1..Len(before)
               /\ move \in Range(get_legal_moves(heap, before[p].board, before[p].color).ret)
               /\ \A j \in DOMAIN before[p].children : before[p].children[j][1] # move
               /\ after[p].children[Len(after[p].children)] = <<move, n>>
               /\ after[n].color = (IF before[p].color = BLACK THEN WHITE ELSE BLACK)
               /\ after[n].children = << >>
               /\ \A k \in 1..Len(before) : after[n].board # after[k].board
               /\ Grid(heap', after[n].board)
                    = AfterMove(heap.objs[before[p].board].size, Grid(heap, before[p].board),
                                move, before[p].color)

C33_Playout ==
  (InSearch /\ InSearch') =>
    LET playout == last'.playout
        node == last'.node
        final == Len(game'.tree) + 1
    IN /\ playout.done
       /\ playout.i \in 0..SimulationMoves
       /\ playout.board_copy \notin playout.held
       /\ node <= Len(game.tree) => View(heap', node) = View(heap, node)
       /\ node > Len(game.tree) =>
            Grid(heap', node)
              = AfterMove(heap.objs[MainId].size, Grid(heap, game'.tree[node].parent),
                          game'.tree[node].move, game.tree[game'.tree[node].parent].color)
       /\ playout.i < SimulationMoves =>
            get_legal_moves(heap', final, playout.current_color).ret = << >>
       /\ playout.current_color
            = (IF playout.i % 2 = 0 THEN game'.tree[node].color
               ELSE opponent_color(game'.tree[node].color))
       /\ last'.reward = evaluate_board_using_heuristic(heap', final, BLACK)

\* C33: _simulate terminates: with a random or a greedy rollout agent for
\* White it plays at most 50 plies, on a copy of the board of the node and
\* never on that board, stops before the 50th when the side to move has no
\* legal move, and returns the heuristic of the final board for Black
\* whatever colour the search is run for.
C33_SimulateTerminates == [][C33_Playout]_vars

\* a search for White: its playout has played some plies and stopped
\* because the side to move had no move, and what it returned is not the
\* heuristic for White
C33_Witness ==
  /\ InSearch
  /\ game.color = WHITE
  /\ last.op = "MCTS.iteration"
  /\ last.playout.done
  /\ last.playout.i \in 1..(SimulationMoves - 1)
  /\ last.reward # evaluate_board_using_heuristic(heap, PlayoutId, WHITE)

\* C34: every move reported legal is playable: on every reachable board and
\* for each colour, every cell of get_legal_moves makes play_move and
\* play_actual_move return true on that board, and the stone stands on the
\* cell afterwards.
C34_LegalMovesArePlayable ==
  \A color \in Colors :
    \A move \in Range(get_legal_moves(heap, MainId, color).ret) :
      /\ \A played \in {play_move(heap, MainId, move[1], move[2], color),
                        play_actual_move(heap, MainId, move[1], move[2], color)} :
           /\ played.ret
           /\ At(Grid(played.M, MainId), move) = color

\* a move is legal, and played, on a cell where the stone has no liberty
\* before the capture it makes
C34_Witness ==
  \E color \in Colors :
    \E move \in Range(get_legal_moves(heap, MainId, color).ret) :
      /\ LibertiesOf(N, WithStone(MainGrid, move, color),
                     GroupOf(N, WithStone(MainGrid, move, color), move)) = {}
      /\ heap.objs[MainId].last_captured[opponent_color(color)] # NoGroup
      /\ play_actual_move(heap, MainId, move[1], move[2], color).ret

\* C35: whenever get_legal_moves(colour) is not empty on the board a
\* strategy is called on (for MCTS with at least one iteration, for the tree
\* searches with a depth of at least 1), the move returned by
\* Minimax.minimax, MinimaxAlphaBeta.minimax, Expectimax.expectimax,
\* MCTS.mcts_search, GreedyAgent.getAction, RandomAgent.getAction and
\* QLearning.choose_action is not None and is one of get_legal_moves(colour)
\* of that board.
C35_StrategiesReturnLegalMove ==
  (/\ last.op \in Strategies
   /\ last.legal_moves # << >>
   /\ last.op = "MCTS.mcts_search" => last.iterations >= 1
   /\ last.op \in {"Minimax.minimax", "MinimaxAlphaBeta.minimax", "Expectimax.expectimax"}
        => last.depth >= 1)
    => /\ last.ret.move # None
       /\ last.ret.move \in Range(last.legal_moves)
       /\ last.legal_moves = get_legal_moves(heap, MainId, last.color).ret

\* MCTS has run one iteration or more on a board with several legal moves
\* and has returned one of them
C35_Witness ==
  /\ last.op = "MCTS.mcts_search"
  /\ last.iterations >= 1
  /\ Len(last.legal_moves) >= 2
  /\ last.ret.move \in Range(last.legal_moves)

\* C36: in the training driver every call update_q_values(prev_board,
\* colour, move, reward, next_board) is made with prev_board equal to the
\* board on which that colour chose the move, the grid choose_action was
\* called with in the same step: the entry written is keyed by the state in
\* which its action was selected.
C36_UpdateKeyedByChoiceState ==
  (game.driver = "training" /\ last.op = "play_game_step" /\ last.path = "moved")
    => last.key = <<get_state(last.chosen_on), last.move>>

\* the visits of the children of node k, summed
RECURSIVE SumVisits(_, _, _)
SumVisits(tree, children, i) ==
  IF i > Len(children) THEN 0
  ELSE tree[children[i][2]].visits + SumVisits(tree, children, i + 1)

ChildVisits(tree, k) == SumVisits(tree, tree[k].children, 1)

\* the colour to move at node k has no legal move on its board
TerminalNode(k) == get_legal_moves(heap, game.tree[k].board, game.tree[k].color).ret = << >>

\* C37: at the end of every pass of the search every node but the root has
\* visits >= 1, the visits of every node are at least the sum of its
\* children's, the visits of the root are that sum when the root position
\* is not terminal, and every other node whose position is not terminal
\* has visits = 1 + the sum of its children's visits.
C37_VisitCounts ==
  InSearch =>
    \A k \in 1..Len(game.tree) :
      /\ k # 1 => game.tree[k].visits >= 1
      /\ game.tree[k].visits >= ChildVisits(game.tree, k)
      /\ (k = 1 /\ ~TerminalNode(k)) => game.tree[k].visits = ChildVisits(game.tree, k)
      /\ (k # 1 /\ ~TerminalNode(k)) => game.tree[k].visits = 1 + ChildVisits(game.tree, k)

\* the root has a node for each of its moves, and the search has since
\* gone down to a child whose position is terminal and has visited it
\* again: that child has no children and visits >= 2
C37_Witness ==
  /\ InSearch
  /\ last.op = "MCTS.iteration"
  /\ Len(game.tree[1].children) >= 1
  /\ Len(game.tree[1].children) = Len(get_legal_moves(heap, MainId, game.color).ret)
  /\ game.tree[1].visits = ChildVisits(game.tree, 1)
  /\ \E k \in 2..Len(game.tree) :
       /\ last.node = k
       /\ TerminalNode(k)
       /\ game.tree[k].visits >= 2
       /\ game.tree[k].children = << >>

\* C38: for every board and colour c, controlled_territory(c) equals
\* count_score()[c] - captured[opponent(c)]: the two flood fills credit the
\* same empty cells to c.
C38_TerritoryTermsAgree ==
  \A c \in Colors :
    controlled_territory(heap, MainId, c)
      = count_score(heap, MainId)[c] - heap.objs[MainId].captured[opponent_color(c)]

\* C39: at every step of a game of the driver, previous_boards is exactly the
\* set of grids produced by the accepted moves of the current game, without
\* the empty grid; the board reads that same set; an accepted move adds the
\* grid it produced and a refused one adds nothing; and when a game's board
\* is created the set is empty and the capture counters are 0/0.
C39_Step ==
  last'.op = "play_game_step" =>
    /\ HasBoard(heap') =>
         /\ heap'.objs[MainId].previous_boards = SetId
         /\ PreviousBoards(heap', MainId) = Range(game'.history)
         /\ AsTuple(EmptyGrid(N)) \notin PreviousBoards(heap', MainId)
    /\ ~HasBoard(heap') => heap'.sets[SetId] = {}
    /\ last'.path = "new_board" =>
         /\ heap'.sets[SetId] = {}
         /\ Grid(heap', MainId) = EmptyGrid(N)
         /\ heap'.objs[MainId].captured = [c \in Colors |-> 0]
    /\ last'.path = "moved" =>
         /\ Grid(heap', MainId) # Grid(heap, MainId)
         /\ heap'.sets[SetId] = heap.sets[SetId] \cup {AsTuple(Grid(heap', MainId))}
    /\ last'.path = "refused" => heap'.sets[SetId] = heap.sets[SetId]

C39_KoHistoryOfCurrentGame == [][C39_Step]_vars

\* a move has been accepted on the second board of the run, after a first
\* game in which stones were taken: the set holds the grids of the second
\* game only
C39_Witness ==
  /\ last.op = "play_game_step" /\ last.path = "moved"
  /\ game.boards_created = 2
  /\ Len(game.results) = 1
  /\ Len(game.history) >= 2
  /\ Cardinality(PreviousBoards(heap, MainId)) = Len(game.history)

====
